---- MODULE Spec2Model ----
(***************************************************************************)
(* Model of the automotive bus-log ingestion pipeline of                   *)
(* automotive-debugger-essential/python-backend:                           *)
(*   parsers/can_parser.py, asc_parser.py, lin_parser.py, uds_parser.py    *)
(*   parsers/auto_detector.py, parsers/dbc_parser.py                       *)
(*   analyzers/error_detector.py, main.py (upload_files, analyze_logs)     *)
(*                                                                         *)
(*   utils/csv_exporter.py, utils/html_exporter.py                         *)
(*                                                                         *)
(* Six sub-systems share the module; each has its own specification        *)
(* (SpecParse, SpecDetect, SpecFormat, SpecDbc, SpecRules, SpecExport)     *)
(* that moves only its own variable and leaves the others at their         *)
(* initial value.                                                          *)
(*                                                                         *)
(* Conventions.                                                            *)
(*  - Timestamps are integers in milliseconds (0.25 s is 250).             *)
(*  - A text line is the record of what the code's regular expressions     *)
(*    extract from it: the grammar it matches (fmt), whether its lower-    *)
(*    cased text contains one of the header words (hdr), its timestamp,    *)
(*    its id token and its data as sequences of hex digits.                *)
(*  - bytes.fromhex, int(s, 16), slicing and the bit arithmetic are        *)
(*    computed, not assumed.                                               *)
(***************************************************************************)
EXTENDS Integers, Sequences, FiniteSets, TLC

VARIABLES parse, det, auto, dbc, rule, exp

vars == <<parse, det, auto, dbc, rule, exp>>

(***************************************************************************)
(* Generic helpers                                                         *)
(***************************************************************************)
None == "None"

\* An optional value whose type is not a string: absent, or present
Nothing == <<>>
Some(x) == <<x>>

RECURSIVE HexToInt(_)
\* int(token, 16) for a token given as its sequence of hex digits
HexToInt(ds) ==
    IF ds = <<>> THEN 0
    ELSE 16 * HexToInt(SubSeq(ds, 1, Len(ds) - 1)) + ds[Len(ds)]

\* bytes.fromhex raises ValueError on an odd number of hex digits
FromHexRaises(ds) == Len(ds) % 2 = 1

\* bytes.fromhex(s) for an even number of hex digits
FromHex(ds) == [i \in 1..(Len(ds) \div 2) |-> 16 * ds[2 * i - 1] + ds[2 * i]]

RECURSIVE HexDigits(_)
\* The hex digits of n >= 0 without leading zeros, most significant first
HexDigits(n) == IF n < 16 THEN <<n>> ELSE Append(HexDigits(n \div 16), n % 16)

\* The digits of f"{n:0wX}": at least w hex digits, zeros added on the left
FormatHex(n, w) ==
    LET ds == HexDigits(n)
    IN  IF Len(ds) >= w THEN ds ELSE [i \in 1..(w - Len(ds)) |-> 0] \o ds

RECURSIVE HexText(_)
\* Hex digits as upper-case text
HexText(ds) ==
    IF ds = <<>> THEN ""
    ELSE HexText(SubSeq(ds, 1, Len(ds) - 1))
         \o <<"0", "1", "2", "3", "4", "5", "6", "7", "8", "9",
              "A", "B", "C", "D", "E", "F">>[ds[Len(ds)] + 1]

\* Python's seq[:n] for n >= 0
Take(s, n) == SubSeq(s, 1, IF n < Len(s) THEN n ELSE Len(s))

RECURSIVE Flatten(_)
\* concatenation of a sequence of sequences
Flatten(ss) == IF ss = <<>> THEN <<>> ELSE Head(ss) \o Flatten(Tail(ss))

(***************************************************************************)
(* The state each sub-system starts in                                     *)
(***************************************************************************)
\* CANParser.parse_file before the call: nothing read, nothing buffered
ParseIdle ==
    [status |-> "idle", parser |-> None, chunk_size |-> 0, lines |-> <<>>,
     messages_buffer |-> <<>>, batches |-> <<>>, line_count |-> 0, error_count |-> 0,
     stats |-> Nothing]

\* dbc_data = None: no database was named in the request
NoLayout == [given |-> FALSE, messages |-> <<>>, order |-> <<>>]

\* main.analyze_logs before the first file is loaded
DetInit == [status |-> "loading", log_data |-> <<>>, dbc_data |-> NoLayout, errors |-> <<>>]

\* AutoDetector after __init__, upload_files before the first file
AutoIdle ==
    [status |-> "idle", path |-> Nothing, result |-> None, parser |-> None,
     responses |-> <<>>]
\* DBCParser after __init__: nothing loaded, no call made
DbcIdle ==
    [status |-> "idle", loads |-> <<>>, messages |-> <<>>, signals |-> <<>>,
     nodes |-> <<>>, attributes |-> <<>>, value_tables |-> <<>>, db |-> Nothing,
     returned |-> Nothing, call |-> Nothing, decoded |-> Nothing]

\* No rule of the fault detector has been called on its own yet
RuleIdle == [status |-> "idle", rule |-> None, args |-> <<>>, returned |-> <<>>]

\* No report has been exported yet
ExportIdle ==
    [status |-> "idle", exporter |-> None, results |-> <<>>, include_sections |-> <<>>,
     content |-> <<>>]

\* Every sub-system in its starting state
Idle ==
    /\ parse = ParseIdle /\ det = DetInit /\ auto = AutoIdle /\ dbc = DbcIdle
    /\ rule = RuleIdle /\ exp = ExportIdle

(***************************************************************************)
(* Streaming parsers: parsers/can_parser.py, asc_parser.py, lin_parser.py, *)
(* uds_parser.py                                                           *)
(***************************************************************************)
\* Longest file prefix a parse reads, and the largest chunk_size tried
MaxLines == 3
MaxChunkSize == 2

ChunkSizes == (0 - 1)..MaxChunkSize

\* A text line, as the features the parsers' regular expressions read
Line(fmt, hdr, ts, id, dlc, hex) ==
    [fmt |-> fmt, hdr |-> hdr, ts |-> ts, id |-> id, dlc |-> dlc, hex |-> hex]

\* ""                                   (empty after strip)
LBlank == Line("blank", FALSE, 0, <<>>, 0, <<>>)
\* "# a comment"
LComment == Line("comment", FALSE, 0, <<>>, 0, <<>>)
\* "Time ID DLC Data"                   (a header line, no grammar)
LHeader == Line("text", TRUE, 0, <<>>, 0, <<>>)
\* "hello"                              (no grammar, no header word)
LJunk == Line("text", FALSE, 0, <<>>, 0, <<>>)
\* "(0.000000) can0 123#0102"
LSock == Line("socketcan", FALSE, 0, <<1, 2, 3>>, 0, <<0, 1, 0, 2>>)
\* "(1.000000) can0 123#012"            (odd number of hex digits)
LSockOdd == Line("socketcan", FALSE, 1000, <<1, 2, 3>>, 0, <<0, 1, 2>>)
\* "(2.000000) video0 7FF#01"           (channel token contains "id")
LSockHdr == Line("socketcan", TRUE, 2000, <<7, 15, 15>>, 0, <<0, 1>>)
\* "(3.000000) can0 18FECA00#FF"
LJ1939 == Line("j1939", FALSE, 3000, <<1, 8, 15, 14, 12, 10, 0, 0>>, 0, <<15, 15>>)
\* "4.000000 1 123 Rx d 2 01 02"
LAsc == Line("asc", FALSE, 4000, <<1, 2, 3>>, 2, <<0, 1, 0, 2>>)
\* "5.000000 1 123 Rx d 8 01 02 03 04"  (declares 8 bytes, carries 4)
LAscShort == Line("asc", FALSE, 5000, <<1, 2, 3>>, 8, <<0, 1, 0, 2, 0, 3, 0, 4>>)
\* "6.000000 1 123 Rx d 1 01 02"        (declares 1 byte, carries 2)
LAscLong == Line("asc", FALSE, 6000, <<1, 2, 3>>, 1, <<0, 1, 0, 2>>)
\* "7.000000 1 123 Rx d 2 01 2"         (odd number of hex digits)
LAscOdd == Line("asc", FALSE, 7000, <<1, 2, 3>>, 2, <<0, 1, 2>>)
\* "1 8.000000 Rx 123 1 01"
LPcan == Line("pcan", FALSE, 8000, <<1, 2, 3>>, 1, <<0, 1>>)
\* "9.0,123,1,01"
LSimple == Line("simple", FALSE, 9000, <<1, 2, 3>>, 1, <<0, 1>>)
\* "LIN 1.000000 5 AB"
LLin == Line("lin", FALSE, 1000, <<5>>, 0, <<10, 11>>)
\* "LIN 2.000000 5 ABC"                 (odd number of hex digits)
LLinOdd == Line("lin", FALSE, 2000, <<5>>, 0, <<10, 11, 12>>)
\* "UDS 1.000000 tester -> ecu 7F2231"
LUds == Line("uds", FALSE, 1000, <<>>, 0, <<7, 15, 2, 2, 3, 1>>)
\* "UDS 2.000000 tester -> ecu 7F223"   (odd number of hex digits)
LUdsOdd == Line("uds", FALSE, 2000, <<>>, 0, <<7, 15, 2, 2, 3>>)

Parsers == {"CANParser", "ASCParser", "LINParser", "UDSParser"}

\* The lines a file handed to each parser is made of
LinePool(p) ==
    CASE p = "CANParser" ->
           {LBlank, LComment, LHeader, LJunk, LSock, LSockOdd, LSockHdr, LJ1939,
            LAsc, LAscShort, LAscLong, LAscOdd, LPcan, LSimple}
      [] p = "ASCParser" -> {LBlank, LComment, LJunk, LAsc, LAscShort, LAscLong, LAscOdd}
      [] p = "LINParser" -> {LBlank, LComment, LJunk, LLin, LLinOdd}
      [] p = "UDSParser" -> {LBlank, LComment, LJunk, LUds, LUdsOdd}
      [] OTHER -> {}

\* pattern.match(line) for the patterns of CANParser.__init__ and of the
\* single-dialect parsers
Matches(pattern, l) ==
    CASE pattern = "socketcan" -> l.fmt \in {"socketcan", "j1939"}
      [] pattern = "j1939" -> l.fmt = "j1939"
      [] OTHER -> l.fmt = pattern

\* Results of parse_line: a message, None, or an exception leaving it
Msg(m) == [tag |-> "msg", msg |-> m]
NoMsg == [tag |-> "none"]
Raised == [tag |-> "raise"]

CANMessage(ts, id, ext, dlc, data) ==
    [timestamp |-> ts, can_id |-> id, is_extended |-> ext, is_error |-> FALSE,
     dlc |-> dlc, data |-> data]

\* CANParser._parse_format_specific: the whole body is inside try/except,
\* so a conversion error ends as None; there is no branch for 'pcan'
ParseFormatSpecific(format_name, l) ==
    IF format_name \in {"asc", "simple"}
    THEN IF FromHexRaises(l.hex)
         THEN NoMsg
         ELSE Msg(CANMessage(l.ts, HexToInt(l.id), HexToInt(l.id) > 2047,
                             l.dlc, Take(FromHex(l.hex), l.dlc)))
    ELSE NoMsg

\* CANParser.parse_line
CANParseLine(l) ==
    IF Matches("socketcan", l)
    THEN IF FromHexRaises(l.hex)
         THEN Raised
         ELSE Msg(CANMessage(l.ts, HexToInt(l.id), Len(l.id) > 3,
                             Len(FromHex(l.hex)), FromHex(l.hex)))
    ELSE IF Matches("j1939", l)
    THEN IF FromHexRaises(l.hex)
         THEN Raised
         ELSE Msg(CANMessage(l.ts, HexToInt(l.id), TRUE,
                             Len(FromHex(l.hex)), FromHex(l.hex)))
    ELSE IF Matches("asc", l) THEN ParseFormatSpecific("asc", l)
    ELSE IF Matches("pcan", l) THEN ParseFormatSpecific("pcan", l)
    ELSE IF Matches("simple", l) THEN ParseFormatSpecific("simple", l)
    ELSE NoMsg

\* ASCParser.parse_line: bytes.fromhex is not guarded
ASCParseLine(l) ==
    IF Matches("asc", l)
    THEN IF FromHexRaises(l.hex)
         THEN Raised
         ELSE Msg([timestamp |-> l.ts, can_id |-> HexToInt(l.id), dlc |-> l.dlc,
                   data |-> Take(FromHex(l.hex), l.dlc)])
    ELSE NoMsg

\* LINParser.parse_line
LINParseLine(l) ==
    IF Matches("lin", l)
    THEN IF FromHexRaises(l.hex)
         THEN Raised
         ELSE Msg([timestamp |-> l.ts, frame_id |-> l.id[1],
                   data |-> FromHex(l.hex), checksum |-> 0])
    ELSE NoMsg

\* UDSParser.parse_line
UDSParseLine(l) ==
    IF Matches("uds", l)
    THEN IF FromHexRaises(l.hex)
         THEN Raised
         ELSE Msg([timestamp |-> l.ts,
                   service_id |-> IF FromHex(l.hex) = <<>> THEN 0 ELSE FromHex(l.hex)[1],
                   data |-> FromHex(l.hex)])
    ELSE NoMsg

\* parse_line of the parser class p
ParseLineOf(p, l) ==
    CASE p = "CANParser" -> CANParseLine(l)
      [] p = "ASCParser" -> ASCParseLine(l)
      [] p = "LINParser" -> LINParseLine(l)
      [] p = "UDSParser" -> UDSParseLine(l)

\* `if not line or line.startswith('#'): continue`
IsBlankOrComment(l) == l.fmt \in {"blank", "comment"}

\* CANParser.parse_file only: `any(header in line.lower() for header in
\* ['time', 'id', 'dlc', 'data', 'channel'])`
IsHeaderLine(l) == l.hdr

\* Whether the loop of parse_file hands the line to parse_line
ReachesParseLine(p, l) ==
    /\ ~IsBlankOrComment(l)
    /\ (p = "CANParser" => ~IsHeaderLine(l))

\* Whether an exception of parse_line is caught inside the loop: only
\* CANParser.parse_file wraps the call in try/except
CatchesLineError(p) == p = "CANParser"

\* Off by one: the buffer is emitted one message late
BufferFullLate(buffer, chunk_size) == Len(buffer) > chunk_size

\* `if len(messages_buffer) >= chunk_size`
BufferFull(buffer, chunk_size) == Len(buffer) >= chunk_size

\* parse_file(file_path, chunk_size) up to the first line read (the file
\* exists and is readable)
ParseOpen(p, cs) ==
    /\ parse.status = "idle"
    /\ parse' = [ParseIdle EXCEPT !.status = "running", !.parser = p, !.chunk_size = cs]
    /\ UNCHANGED <<det, auto, dbc, rule, exp>>

\* One iteration of `for line in f` on the next line l of the file
ParseLine(l) ==
    /\ parse.status = "running"
    /\ Len(parse.lines) < MaxLines
    /\ l \in LinePool(parse.parser)
    /\ LET p == parse.parser
           r == ParseLineOf(p, l)
           read == [parse EXCEPT !.lines = Append(@, l), !.line_count = @ + 1]
           buf == Append(parse.messages_buffer, r.msg)
       IN  parse' =
             IF ~ReachesParseLine(p, l) \/ r.tag = "none" THEN read
             ELSE IF r.tag = "raise"
             THEN IF CatchesLineError(p)
                  THEN [read EXCEPT !.error_count = @ + 1]
                  ELSE [read EXCEPT !.status = "raised"]
             ELSE IF BufferFull(buf, parse.chunk_size)
             THEN [read EXCEPT !.batches = Append(@, buf), !.messages_buffer = <<>>]
             ELSE [read EXCEPT !.messages_buffer = buf]
    /\ UNCHANGED <<det, auto, dbc, rule, exp>>

\* End of file: `if messages_buffer: yield messages_buffer`
ParseEnd ==
    /\ parse.status = "running"
    /\ parse' = [parse EXCEPT
                   !.status = "done",
                   !.batches = IF parse.messages_buffer # <<>>
                               THEN Append(@, parse.messages_buffer) ELSE @,
                   !.messages_buffer = <<>>]
    /\ UNCHANGED <<det, auto, dbc, rule, exp>>

\* The files get_file_stats is called on: up to MaxLines lines of CANParser
StatsFiles == UNION {[1..n -> LinePool("CANParser")] : n \in 0..MaxLines}

RECURSIVE ParsedFrames(_)
\* The frames the loop of CANParser.parse_file makes of the lines of a file:
\* blank, comment and header lines are passed over, a line parse_line
\* returns None for or raises on leaves no frame
ParsedFrames(ls) ==
    IF ls = <<>> THEN <<>>
    ELSE (IF /\ ReachesParseLine("CANParser", Head(ls))
             /\ CANParseLine(Head(ls)).tag = "msg"
          THEN <<CANParseLine(Head(ls)).msg>> ELSE <<>>) \o ParsedFrames(Tail(ls))

\* Python truth of a timestamp that may be None: None and 0.0 are false
TruthyTime(t) == t # Nothing /\ t[1] # 0

\* The dict get_file_stats builds of the frames (channels, message_rate,
\* top_ids and file_size left out)
FileStats(frames) ==
    LET n == Len(frames)
        first_timestamp == IF n = 0 THEN Nothing ELSE Some(frames[1].timestamp)
        last_timestamp == IF n = 0 THEN Nothing ELSE Some(frames[n].timestamp)
        known == TruthyTime(first_timestamp) /\ TruthyTime(last_timestamp)
        ids == {FormatHex(frames[i].can_id, 8) : i \in 1..n}
        dlcs == {frames[i].dlc : i \in 1..n}
    IN  [total_messages |-> n,
         unique_ids |-> Cardinality({frames[i].can_id : i \in 1..n}),
         time_range |-> [start |-> IF known THEN first_timestamp ELSE Nothing,
                         end |-> IF known THEN last_timestamp ELSE Nothing],
         error_frames |-> Cardinality({i \in 1..n : frames[i].is_error}),
         extended_ids |-> Cardinality({i \in 1..n : frames[i].is_extended}),
         standard_ids |-> Cardinality({i \in 1..n : ~frames[i].is_extended}),
         id_frequency |->
             [id_hex \in ids |->
                  Cardinality({i \in 1..n : FormatHex(frames[i].can_id, 8) = id_hex})],
         dlc_distribution |->
             [dlc \in dlcs |-> Cardinality({i \in 1..n : frames[i].dlc = dlc})]]

\* CANParser.get_file_stats(file_path) on a new parser: parse_file with
\* chunk_size 10000 gives the frames of the file as one batch, and the
\* statistics are counted over them
CallGetFileStats ==
    /\ parse.status = "idle"
    /\ \E lines \in StatsFiles :
           LET frames == ParsedFrames(lines)
           IN  parse' = [ParseIdle EXCEPT
                           !.status = "stats", !.parser = "CANParser",
                           !.chunk_size = 10000, !.lines = lines,
                           !.batches = IF frames = <<>> THEN <<>> ELSE <<frames>>,
                           !.line_count = Len(lines),
                           !.error_count =
                               Cardinality({i \in 1..Len(lines) :
                                   /\ ReachesParseLine("CANParser", lines[i])
                                   /\ CANParseLine(lines[i]).tag = "raise"}),
                           !.stats = Some(FileStats(frames))]
    /\ UNCHANGED <<det, auto, dbc, rule, exp>>

InitParse == Idle

NextParse ==
    \/ \E p \in Parsers, cs \in ChunkSizes : ParseOpen(p, cs)
    \/ \E l \in LinePool(parse.parser) : ParseLine(l)
    \/ ParseEnd
    \/ CallGetFileStats

SpecParse == InitParse /\ [][NextParse]_vars

(***************************************************************************)
(* Fault detector: analyzers/error_detector.py                             *)
(***************************************************************************)
\* Frames and text lines over all chunks of one analysis, and its chunks
MaxItems == 3
MaxChunks == 2

\* _detect_bus_off(messages, gap_threshold_ms = 100)
gap_threshold_ms == 100

\* Bit arithmetic on bytes
ShiftRight(x, n) == x \div (2 ^ n)
LowBits(x, n) == x % (2 ^ n)
\* x & 0xE0 for a byte x
AndE0(x) == 32 * ShiftRight(x, 5)

Front(s) == SubSeq(s, 1, Len(s) - 1)

\* Where list.sort / sorted (stable, ascending key) puts e behind the
\* already sorted s
InsertByTimestamp(s, e) ==
    LET k == Cardinality({i \in 1..Len(s) : s[i].timestamp <= e.timestamp})
    IN  SubSeq(s, 1, k) \o <<e>> \o SubSeq(s, k + 1, Len(s))

RECURSIVE SortByTimestamp(_)
\* sorted(xs, key=lambda m: m.timestamp)
SortByTimestamp(s) ==
    IF s = <<>> THEN <<>>
    ELSE InsertByTimestamp(SortByTimestamp(Front(s)), s[Len(s)])

\* The list is left in the order the rules appended to it
LeaveUnsorted(s) == s

\* errors.sort(key=lambda e: e.timestamp)
SortErrors(s) == SortByTimestamp(s)

\* A code string as the pieces its format expression joins: text, number,
\* text, number (a piece that is not there is "" or 0)
Code(a, m, b, n) == <<a, m, b, n>>

\* ErrorDetector.uds_negative_responses
uds_negative_responses ==
    16 :> "General Reject" @@ 17 :> "Service Not Supported"
    @@ 18 :> "Sub Function Not Supported"
    @@ 19 :> "Incorrect Message Length Or Invalid Format"
    @@ 20 :> "Response Too Long" @@ 33 :> "Busy Repeat Request"
    @@ 34 :> "Conditions Not Correct" @@ 36 :> "Request Sequence Error"
    @@ 37 :> "No Response From Subnet Component"
    @@ 38 :> "Failure Prevents Execution Of Requested Action"
    @@ 49 :> "Request Out Of Range" @@ 51 :> "Security Access Denied"
    @@ 53 :> "Invalid Key" @@ 54 :> "Exceeded Number Of Attempts"
    @@ 55 :> "Required Time Delay Not Expired"
    @@ 112 :> "Upload Download Not Accepted" @@ 113 :> "Transfer Data Suspended"
    @@ 114 :> "General Programming Failure" @@ 115 :> "Wrong Block Sequence Counter"
    @@ 120 :> "Request Correctly Received Response Pending"
    @@ 126 :> "Sub Function Not Supported In Active Session"
    @@ 127 :> "Service Not Supported In Active Session"

\* self.uds_negative_responses.get(nrc, f"Unknown NRC: {nrc:02X}")
NrcDescription(nrc) ==
    IF nrc \in DOMAIN uds_negative_responses THEN uds_negative_responses[nrc]
    ELSE "Unknown NRC: " \o HexText(FormatHex(nrc, 2))

\* The text of a code, from its pieces: hex of two digits behind UDS_NRC_,
\* hex of one and of three digits behind the letter of a UDS DTC, decimal
\* numbers in SPN<spn>_FMI<fmi>, the bare text otherwise
CodeText(type, code) ==
    CASE type = "UDS_ERROR" -> code[1] \o HexText(FormatHex(code[2], 2))
      [] type = "UDS_DTC" ->
           code[1] \o HexText(FormatHex(code[2], 1)) \o HexText(FormatHex(code[4], 3))
      [] type = "J1939_DTC" -> code[1] \o ToString(code[2]) \o code[3] \o ToString(code[4])
      [] OTHER -> code[1]

\* The Error dataclass (source left out).  Of the description the part
\* that names the negative-response code is kept, for a UDS negative
\* response; the description of every other fault is left out.
Error(ts, type, severity, code, id) ==
    [timestamp |-> ts, error_type |-> type, severity |-> severity, code |-> code,
     description |-> IF type = "UDS_ERROR" THEN NrcDescription(code[2]) ELSE "",
     can_id |-> id, fix_suggestion |-> None]

RECURSIVE BusOffFrom(_, _)
\* The loop of _detect_bus_off from index i (1-based) of the sorted list
BusOffFrom(sm, i) ==
    IF i > Len(sm) THEN <<>>
    ELSE (IF sm[i].timestamp - sm[i - 1].timestamp > gap_threshold_ms
          THEN <<Error(sm[i - 1].timestamp, "BUS_OFF", "Critical",
                       Code("E_BUS_OFF", 0, "", 0),
                       Some(sm[i - 1].can_id))>>
          ELSE <<>>) \o BusOffFrom(sm, i + 1)

\* The gaps are measured in the order the frames came in
DetectBusOffUnsorted(messages) ==
    IF Len(messages) < 2 THEN <<>> ELSE BusOffFrom(messages, 2)

\* _detect_bus_off
DetectBusOff(messages) ==
    IF Len(messages) < 2 THEN <<>> ELSE BusOffFrom(SortByTimestamp(messages), 2)

RECURSIVE DetectErrorFrames(_)
\* _detect_error_frames
DetectErrorFrames(messages) ==
    IF messages = <<>> THEN <<>>
    ELSE (IF Head(messages).is_error
          THEN <<Error(Head(messages).timestamp, "ERROR_FRAME", "High",
                       Code("E_CAN_ERROR_FRAME", 0, "", 0), Some(Head(messages).can_id))>>
          ELSE <<>>) \o DetectErrorFrames(Tail(messages))

dm1_pgn == 65226
dm2_pgn == 65227

\* (msg.can_id >> 8) & 0xFFFF
Pgn(can_id) == LowBits(ShiftRight(can_id, 8), 16)

RECURSIVE ParseJ1939From(_, _, _)
\* The loop `for i in range(2, len(msg.data) - 3, 4)` of _parse_j1939_dm,
\* i being the 0-based index of the code
ParseJ1939From(msg, pgn, i) ==
    IF i >= Len(msg.data) - 3 THEN <<>>
    ELSE LET d == msg.data
             spn == d[i + 1] + 256 * d[i + 2] + 2048 * AndE0(d[i + 3])
             fmi == LowBits(d[i + 3], 5)
         IN  (IF i + 3 < Len(d) /\ spn # 0
              THEN <<Error(msg.timestamp, "J1939_DTC",
                           IF pgn = dm1_pgn THEN "Critical" ELSE "Medium",
                           Code("SPN", spn, "_FMI", fmi), Some(msg.can_id))>>
              ELSE <<>>) \o ParseJ1939From(msg, pgn, i + 4)

\* _parse_j1939_dm
ParseJ1939Dm(msg, pgn) ==
    IF Len(msg.data) < 6 THEN <<>> ELSE ParseJ1939From(msg, pgn, 2)

RECURSIVE DetectJ1939Dtc(_)
\* _detect_j1939_dtc
DetectJ1939Dtc(messages) ==
    IF messages = <<>> THEN <<>>
    ELSE LET msg == Head(messages)
         IN  (IF /\ msg.can_id > 2047
                 /\ Pgn(msg.can_id) \in {dm1_pgn, dm2_pgn}
                 /\ Len(msg.data) >= 8
              THEN ParseJ1939Dm(msg, Pgn(msg.can_id))
              ELSE <<>>) \o DetectJ1939Dtc(Tail(messages))

\* The first digit is taken from one bit of the high byte instead of two
ConvertToDtcFormatNarrow(high_byte, low_byte) ==
    Code(CASE LowBits(ShiftRight(high_byte, 6), 2) = 0 -> "P"
           [] LowBits(ShiftRight(high_byte, 6), 2) = 1 -> "C"
           [] LowBits(ShiftRight(high_byte, 6), 2) = 2 -> "B" [] OTHER -> "U",
         LowBits(ShiftRight(high_byte, 4), 1), "", 256 * LowBits(high_byte, 4) + low_byte)

\* _convert_to_dtc_format: letter, one digit, three digits
ConvertToDtcFormat(high_byte, low_byte) ==
    LET dtc_class == LowBits(ShiftRight(high_byte, 6), 2)
        dtc_digit == LowBits(ShiftRight(high_byte, 4), 2)
        dtc_rest == 256 * LowBits(high_byte, 4) + low_byte
    IN  Code(CASE dtc_class = 0 -> "P" [] dtc_class = 1 -> "C"
               [] dtc_class = 2 -> "B" [] OTHER -> "U",
             dtc_digit, "", dtc_rest)

RECURSIVE ParseUdsDtcFrom(_, _)
\* The loop `for i in range(2, len(msg.data) - 2, 3)` of _parse_uds_dtc
ParseUdsDtcFrom(msg, i) ==
    IF i >= Len(msg.data) - 2 THEN <<>>
    ELSE LET d == msg.data
         IN  (IF i + 2 < Len(d)
              THEN <<Error(msg.timestamp, "UDS_DTC",
                           IF d[i + 3] % 2 = 1 THEN "High" ELSE "Medium",
                           ConvertToDtcFormat(d[i + 1], d[i + 2]),
                           Some(msg.can_id))>>
              ELSE <<>>) \o ParseUdsDtcFrom(msg, i + 3)

\* _parse_uds_dtc
ParseUdsDtc(msg) == IF Len(msg.data) < 4 THEN <<>> ELSE ParseUdsDtcFrom(msg, 2)

RECURSIVE DetectUdsErrors(_)
\* _detect_uds_errors
DetectUdsErrors(messages) ==
    IF messages = <<>> THEN <<>>
    ELSE LET msg == Head(messages)
             nrc == IF Len(msg.data) > 2 THEN msg.data[3] ELSE 0
         IN  (IF Len(msg.data) < 2 THEN <<>>
              ELSE IF msg.data[1] = 127
              THEN <<Error(msg.timestamp, "UDS_ERROR", "Medium", Code("UDS_NRC_", nrc, "", 0),
                           Some(msg.can_id))>>
              ELSE IF msg.data[1] = 89 THEN ParseUdsDtc(msg)
              ELSE <<>>) \o DetectUdsErrors(Tail(messages))

\* `if not dbc_data or 'messages' not in dbc_data`
HasLayout(dbc_data) == dbc_data.given

RECURSIVE DlcErrorsOf(_, _)
\* The loop of _detect_dlc_errors
DlcErrorsOf(messages, dbc_messages) ==
    IF messages = <<>> THEN <<>>
    ELSE LET msg == Head(messages)
         IN  (IF msg.can_id \in DOMAIN dbc_messages
                 /\ msg.dlc # dbc_messages[msg.can_id].dlc
              THEN <<Error(msg.timestamp, "DLC_ERROR", "Medium",
                           Code("E_DLC_MISMATCH", 0, "", 0),
                           Some(msg.can_id))>>
              ELSE <<>>) \o DlcErrorsOf(Tail(messages), dbc_messages)

\* _detect_dlc_errors
DetectDlcErrors(messages, dbc_data) ==
    IF ~HasLayout(dbc_data) THEN <<>> ELSE DlcErrorsOf(messages, dbc_data.messages)

RECURSIVE TimeoutsFromInclusive(_, _, _, _)
\* A gap of exactly twice the cycle time counts as a timeout too
TimeoutsFromInclusive(msg_list, i, msg_id, cycle_time_ms) ==
    IF i > Len(msg_list) THEN <<>>
    ELSE (IF msg_list[i].timestamp - msg_list[i - 1].timestamp >= cycle_time_ms * 2
          THEN <<Error(msg_list[i - 1].timestamp, "TIMEOUT", "High",
                       Code("E_MSG_TIMEOUT", 0, "", 0),
                       Some(msg_id))>>
          ELSE <<>>) \o TimeoutsFromInclusive(msg_list, i + 1, msg_id, cycle_time_ms)

RECURSIVE TimeoutsFrom(_, _, _, _)
\* The inner loop of _detect_timeouts over the sorted frames of one id
TimeoutsFrom(msg_list, i, msg_id, cycle_time_ms) ==
    IF i > Len(msg_list) THEN <<>>
    ELSE (IF msg_list[i].timestamp - msg_list[i - 1].timestamp > cycle_time_ms * 2
          THEN <<Error(msg_list[i - 1].timestamp, "TIMEOUT", "High",
                       Code("E_MSG_TIMEOUT", 0, "", 0),
                       Some(msg_id))>>
          ELSE <<>>) \o TimeoutsFrom(msg_list, i + 1, msg_id, cycle_time_ms)

\* msg_by_id[msg_id]: the frames of one id, in input order
MsgById(messages, msg_id) == SelectSeq(messages, LAMBDA m : m.can_id = msg_id)

RECURSIVE TimeoutsOfIds(_, _, _)
\* The loop of _detect_timeouts over dbc_messages.items(), a dict in
\* insertion order (ids)
TimeoutsOfIds(messages, dbc_data, ids) ==
    IF ids = <<>> THEN <<>>
    ELSE LET msg_id == Head(ids)
             msg_def == dbc_data.messages[msg_id]
         IN  (IF msg_def.cycle_time # Nothing /\ msg_def.cycle_time[1] # 0
              THEN TimeoutsFrom(SortByTimestamp(MsgById(messages, msg_id)), 2,
                                msg_id, msg_def.cycle_time[1])
              ELSE <<>>) \o TimeoutsOfIds(messages, dbc_data, Tail(ids))

\* _detect_timeouts
DetectTimeouts(messages, dbc_data) ==
    IF ~HasLayout(dbc_data) THEN <<>>
    ELSE TimeoutsOfIds(messages, dbc_data, dbc_data.order)

\* _detect_can_errors: the rules in their fixed order
DetectCanErrors(messages, dbc_data) ==
    DetectBusOff(messages) \o DetectErrorFrames(messages) \o DetectJ1939Dtc(messages)
      \o DetectUdsErrors(messages) \o DetectDlcErrors(messages, dbc_data)
      \o DetectTimeouts(messages, dbc_data)

\* ErrorDetector.error_patterns, a dict in insertion order
error_patterns ==
    <<"bus_off", "error_frame", "timeout", "checksum", "dlc_error", "stuff_error",
      "form_error", "ack_error", "bit_error", "arbitration_lost", "overrun",
      "fault", "dtc">>

\* _get_severity
GetSeverity(error_type) ==
    IF error_type \in {"bus_off", "error_frame", "fault"} THEN "Critical"
    ELSE IF error_type \in {"timeout", "checksum", "dtc"} THEN "High"
    ELSE IF error_type \in {"dlc_error", "ack_error", "overrun"} THEN "Medium"
    ELSE "Low"

\* str.upper() of a pattern key
Upper(error_type) ==
    CASE error_type = "bus_off" -> "BUS_OFF"
      [] error_type = "error_frame" -> "ERROR_FRAME"
      [] error_type = "timeout" -> "TIMEOUT"
      [] error_type = "checksum" -> "CHECKSUM"
      [] error_type = "dlc_error" -> "DLC_ERROR"
      [] error_type = "stuff_error" -> "STUFF_ERROR"
      [] error_type = "form_error" -> "FORM_ERROR"
      [] error_type = "ack_error" -> "ACK_ERROR"
      [] error_type = "bit_error" -> "BIT_ERROR"
      [] error_type = "arbitration_lost" -> "ARBITRATION_LOST"
      [] error_type = "overrun" -> "OVERRUN"
      [] error_type = "fault" -> "FAULT"
      [] error_type = "dtc" -> "DTC"

\* The first pattern, in dict order, that matches the line (0: none)
FirstMatch(line) ==
    IF \E k \in 1..Len(error_patterns) : error_patterns[k] \in line.hits
    THEN CHOOSE k \in 1..Len(error_patterns) :
           /\ error_patterns[k] \in line.hits
           /\ \A j \in 1..(k - 1) : error_patterns[j] \notin line.hits
    ELSE 0

RECURSIVE TextErrorsFrom(_, _)
\* The loop of _detect_text_errors from line line_num (0-based); a line
\* without a timestamp gets float(line_num) seconds
TextErrorsFrom(lines, line_num) ==
    IF line_num >= Len(lines) THEN <<>>
    ELSE LET line == lines[line_num + 1]
             timestamp == IF line.stamp = Nothing THEN 1000 * line_num ELSE line.stamp[1]
             k == FirstMatch(line)
             error_type == error_patterns[k]
         IN  (IF k = 0 THEN <<>>
              ELSE IF "dtc" \in line.hits
              THEN <<Error(timestamp, "DTC", GetSeverity(error_type),
                           Code(line.dtc, 0, "", 0), Nothing)>>
              ELSE <<Error(timestamp, Upper(error_type), GetSeverity(error_type),
                           Code("E_", 0, Upper(error_type), 0), Nothing)>>)
             \o TextErrorsFrom(lines, line_num + 1)

\* _detect_text_errors
DetectTextErrors(text) == TextErrorsFrom(text, 0)

\* _detect_structured_errors: a placeholder that finds nothing
DetectStructuredErrors(data) == <<>>

\* The branch of detect_errors for one chunk
ChunkErrors(data_chunk, dbc_data) ==
    CASE data_chunk.kind = "list" -> DetectCanErrors(data_chunk.items, dbc_data)
      [] data_chunk.kind = "dict" -> DetectStructuredErrors(data_chunk.items)
      [] data_chunk.kind = "str" -> DetectTextErrors(data_chunk.items)
      [] OTHER -> <<>>

RECURSIVE CollectErrors(_, _)
\* The loop of detect_errors over log_data
CollectErrors(log_data, dbc_data) ==
    IF log_data = <<>> THEN <<>>
    ELSE ChunkErrors(Head(log_data), dbc_data) \o CollectErrors(Tail(log_data), dbc_data)

\* _suggest_fix: the key of the remedy table, or the generic remedy
SuggestFix(error) ==
    IF error.error_type \in {"BUS_OFF", "ERROR_FRAME", "TIMEOUT", "DLC_ERROR",
                             "UDS_ERROR", "J1939_DTC", "CHECKSUM"}
    THEN error.error_type ELSE "generic"

\* detect_errors
DetectErrorsOf(log_data, dbc_data) ==
    LET errors == SortErrors(CollectErrors(log_data, dbc_data))
    IN  [i \in 1..Len(errors) |->
           [errors[i] EXCEPT !.fix_suggestion = SuggestFix(errors[i])]]

\* Inputs of an analysis: frames at three instants (ms) on two ids, and an
\* error frame
Timestamps == {0, 100, 250}

DFrame(ts, id, err, dlc, data) ==
    [timestamp |-> ts, can_id |-> id, is_error |-> err, dlc |-> dlc, data |-> data]

FramePool ==
    {DFrame(ts, 256, FALSE, 1, <<0>>) : ts \in Timestamps}
      \cup {DFrame(ts, 512, FALSE, 1, <<0>>) : ts \in Timestamps}
      \cup {DFrame(0, 256, TRUE, 1, <<0>>)}

\* Text blocks: "(0.100) bus off" and "timeout fault\nall fine\nP0123 stored"
TextPool ==
    {<<[stamp |-> Some(100), hits |-> {"bus_off"}, dtc |-> None]>>,
     <<[stamp |-> Nothing, hits |-> {"timeout", "fault"}, dtc |-> None],
       [stamp |-> Nothing, hits |-> {}, dtc |-> None],
       [stamp |-> Nothing, hits |-> {"dtc"}, dtc |-> "P0123"]>>}

\* dbc_data as DBCParser._messages_to_dict returns it: 0x100 is sent every
\* 75 ms with 1 byte, 0x200 has 2 bytes and no cycle time
Layout ==
    [given |-> TRUE,
     messages |-> (256 :> [name |-> "M256", dlc |-> 1, cycle_time |-> Some(75)]
                   @@ 512 :> [name |-> "M512", dlc |-> 2, cycle_time |-> Nothing]),
     order |-> <<256, 512>>]

\* The values of dbc_data an analysis is run with
DbcChoices == <<NoLayout, Layout>>

Chunk(kind, items) == [kind |-> kind, items |-> items]

\* What a chunk counts against MaxItems
Weight(c) == IF c.kind = "list" THEN Len(c.items) ELSE 1

RECURSIVE TotalWeight(_)
TotalWeight(log_data) ==
    IF log_data = <<>> THEN 0 ELSE Weight(Head(log_data)) + TotalWeight(Tail(log_data))

\* The chunks that still fit: a frame list, a text block or a dict
ChunkPool(room) ==
    {Chunk("list", fs) : fs \in UNION {[1..n -> FramePool] : n \in 0..room}}
      \cup (IF room >= 1
            THEN {Chunk("str", t) : t \in TextPool} \cup {Chunk("dict", <<>>)}
            ELSE {})

\* main.analyze_logs: `log_data.append(data)` for one more file
LoadParsedData(data) ==
    /\ det.status = "loading"
    /\ Len(det.log_data) < MaxChunks
    /\ data \in ChunkPool(MaxItems - TotalWeight(det.log_data))
    /\ det' = [det EXCEPT !.log_data = Append(@, data)]
    /\ UNCHANGED <<parse, auto, dbc, rule, exp>>

\* main.analyze_logs: `await error_detector.detect_errors(log_data, dbc_data)`
DetectErrors(dbc_data) ==
    /\ det.status = "loading"
    /\ det' = [det EXCEPT !.status = "done", !.dbc_data = dbc_data,
                          !.errors = DetectErrorsOf(det.log_data, dbc_data)]
    /\ UNCHANGED <<parse, auto, dbc, rule, exp>>

InitDetect == Idle

NextDetect ==
    \/ \E data \in ChunkPool(MaxItems - TotalWeight(det.log_data)) : LoadParsedData(data)
    \/ \E k \in 1..Len(DbcChoices) : DetectErrors(DbcChoices[k])

SpecDetect == InitDetect /\ [][NextDetect]_vars

(***************************************************************************)
(* Format detection: parsers/auto_detector.py and main.upload_files        *)
(***************************************************************************)
\* Most files one upload request carries
MaxUploads == 2

\* self.parsers: dialect tag -> class of the registered parser instance
parsers ==
    [can_asc |-> "ASCParser", can_blf |-> "BLFParser", can_trc |-> "CANParser",
     can_log |-> "CANParser", lin |-> "LINParser", uds |-> "UDSParser",
     pcap |-> "PCAPParser", dbc |-> "DBCParser",
     canalyzer_xml |-> "CANalyzerParser", canalyzer_csv |-> "CANalyzerParser",
     inca_dat |-> "INCAParser", inca_mdf |-> "INCAParser"]

\* self.signatures, keyed by the name of the magic prefix
signatures ==
    [LOGG |-> "can_blf", date |-> "can_asc", ole2 |-> "excel", xml |-> "xml",
     pdf |-> "pdf", zip |-> "zip"]

\* self.extension_map
extension_map ==
    (".asc" :> "can_asc") @@ (".blf" :> "can_blf") @@ (".trc" :> "can_trc") @@
    (".log" :> "can_log") @@ (".txt" :> "can_log") @@ (".lin" :> "lin") @@
    (".ldf" :> "lin") @@ (".uds" :> "uds") @@ (".pcap" :> "pcap") @@
    (".pcapng" :> "pcap") @@ (".dbc" :> "dbc") @@ (".csv" :> "csv") @@
    (".xml" :> "xml") @@ (".dat" :> "inca_dat") @@ (".mdf" :> "inca_mdf") @@
    (".xlsx" :> "excel") @@ (".json" :> "json")

\* The extensions whose hint is checked against the content first
AmbiguousExts == {".csv", ".xml", ".txt", ".log"}

\* A file, as the features detection reads: whether it exists and can be
\* opened, its lower-cased suffix, the signature its first bytes start with
\* ("none" if none), what an XML parse of it finds, its first lines, and the
\* tool names that occur in its text
File(exists, readable, ext, magic, xml, lines, words) ==
    [exists |-> exists, readable |-> readable, ext |-> ext, magic |-> magic,
     xml |-> xml, lines |-> lines, words |-> words]

\* The lines left once the blank ones are dropped
NonBlank(lines) == SelectSeq(lines, LAMBDA l : l.fmt # "blank")

\* "7E0#0322F190" and "18FECA00#FF": an id#data token with no timestamp in
\* front, which no parser grammar matches
LUdsToken == Line("token", FALSE, 0, <<7, 14, 0>>, 0, <<0, 3, 2, 2>>)
LJ1939Token == Line("token", FALSE, 0, <<1, 8, 15, 14, 12, 10, 0, 0>>, 0, <<15, 15>>)

\* The lines with an id#data token in them
HasToken(l) == l.fmt \in {"socketcan", "j1939", "token"}

\* 18[0-9A-F]{6}# : the token's last eight id digits start with 18
J1939Token(l) ==
    /\ HasToken(l)
    /\ Len(l.id) >= 8
    /\ l.id[Len(l.id) - 7] = 1
    /\ l.id[Len(l.id) - 6] = 8

\* (7[0-9A-F]{2}|[0-9A-F]{2}7[0-9A-F])\s*#
UdsToken(l) ==
    /\ HasToken(l)
    /\ \/ Len(l.id) >= 3 /\ l.id[Len(l.id) - 2] = 7
       \/ Len(l.id) >= 4 /\ l.id[Len(l.id) - 1] = 7

\* self.content_patterns[name].search(sample)
ContentSearch(name, f) ==
    CASE name = "can_timestamp" ->
           \E i \in 1..Len(f.lines) : f.lines[i].fmt \in {"socketcan", "j1939"}
      [] name = "can_asc" ->
           \* anchored at the start of the sample, after optional whitespace
           /\ NonBlank(f.lines) # <<>>
           /\ NonBlank(f.lines)[1].fmt = "asc"
      [] name = "j1939" -> \E i \in 1..Len(f.lines) : J1939Token(f.lines[i])
      [] name = "uds" -> \E i \in 1..Len(f.lines) : UdsToken(f.lines[i])
      [] name = "lin" -> \E i \in 1..Len(f.lines) : f.lines[i].fmt = "lin"
      [] name = "canalyzer_log" -> f.words \cap {"CANalyzer", "CANoe", "Vector"} # {}
      [] name = "inca" -> f.words \cap {"INCA", "ETAS"} # {}
      [] OTHER -> FALSE

\* AutoDetector._detect_xml_format
DetectXmlFormat(f) ==
    CASE f.xml = "malformed" -> "xml"
      [] f.xml = "CANalyzer" -> "canalyzer_xml"
      [] f.xml = "CANoe" -> "canalyzer_xml"
      [] f.xml = "INCA" -> "inca_xml"
      [] OTHER -> "xml"

\* AutoDetector._detect_by_magic
DetectByMagic(f) ==
    IF ~f.readable THEN None
    ELSE IF f.magic \in DOMAIN signatures
    THEN IF signatures[f.magic] = "xml" THEN DetectXmlFormat(f)
         ELSE signatures[f.magic]
    ELSE None

\* AutoDetector._detect_by_content
DetectByContent(f) ==
    IF ~f.readable THEN None
    ELSE IF ContentSearch("can_timestamp", f) THEN "can_log"
    ELSE IF ContentSearch("can_asc", f) THEN "can_asc"
    ELSE IF ContentSearch("j1939", f) THEN "can_log"
    ELSE IF ContentSearch("uds", f) THEN "uds"
    ELSE IF ContentSearch("lin", f) THEN "lin"
    ELSE IF ContentSearch("canalyzer_log", f)
    THEN IF f.ext = ".csv" THEN "canalyzer_csv" ELSE "canalyzer_xml"
    ELSE IF ContentSearch("inca", f)
    THEN IF f.ext = ".mdf" THEN "inca_mdf" ELSE "inca_dat"
    ELSE None

\* parser.validate_format(file_path): each class's own check of the file
ValidateFormat(class, f) ==
    IF ~f.readable THEN FALSE
    ELSE CASE class = "CANParser" ->
                \E i \in 1..Len(f.lines) :
                    \E pattern \in {"socketcan", "asc", "pcan", "simple", "j1939"} :
                        Matches(pattern, f.lines[i])
           [] class = "ASCParser" -> \E i \in 1..Len(f.lines) : Matches("asc", f.lines[i])
           [] class = "LINParser" -> \E i \in 1..Len(f.lines) : Matches("lin", f.lines[i])
           [] class = "UDSParser" -> \E i \in 1..Len(f.lines) : Matches("uds", f.lines[i])
           [] class = "BLFParser" -> f.magic = "LOGG"
           [] class = "PCAPParser" -> f.magic = "pcap"
           [] class = "CANalyzerParser" -> f.words \cap {"CANalyzer", "CANoe"} # {}
           [] class = "INCAParser" -> f.words \cap {"INCA", "ETAS"} # {}
           [] OTHER -> FALSE

\* parser_order of _detect_by_parsing
parser_order == <<"can_log", "can_asc", "can_blf", "lin", "uds">>

RECURSIVE DetectByParsingFrom(_, _)
DetectByParsingFrom(k, f) ==
    IF k > Len(parser_order) THEN None
    ELSE IF /\ parser_order[k] \in DOMAIN parsers
            /\ ValidateFormat(parsers[parser_order[k]], f)
    THEN parser_order[k]
    ELSE DetectByParsingFrom(k + 1, f)

\* AutoDetector._detect_by_parsing
DetectByParsing(f) == DetectByParsingFrom(1, f)

\* AutoDetector.detect_format for a file that exists: the value returned
DetectFormatOf(f) ==
    IF f.ext \in DOMAIN extension_map
    THEN IF f.ext \in AmbiguousExts /\ DetectByContent(f) # None
         THEN DetectByContent(f)
         ELSE extension_map[f.ext]
    ELSE IF DetectByMagic(f) # None THEN DetectByMagic(f)
    ELSE IF DetectByContent(f) # None THEN DetectByContent(f)
    ELSE IF DetectByParsing(f) # None THEN DetectByParsing(f)
    ELSE "can_log"

\* The tags with "can" in them
ContainsCan(format_type) ==
    format_type \in {"can_asc", "can_blf", "can_trc", "can_log",
                     "canalyzer_xml", "canalyzer_csv"}

\* AutoDetector.get_parser: the class of the parser returned
GetParser(format_type) ==
    IF format_type \in DOMAIN parsers THEN parsers[format_type]
    ELSE IF ContainsCan(format_type)
    THEN (IF "can_log" \in DOMAIN parsers THEN parsers["can_log"] ELSE "CANParser")
    ELSE "CANParser"

\* The public operations each parser class defines
Operations(class) ==
    CASE class = "DBCParser" ->
           {"parse_file", "decode_message", "get_statistics", "validate_format"}
      [] class = "CANParser" ->
           {"validate_format", "parse_file", "parse_line", "get_file_stats",
            "filter_messages", "detect_bus_off"}
      [] class \in {"ASCParser", "LINParser", "UDSParser", "BLFParser",
                    "PCAPParser", "CANalyzerParser", "INCAParser"} ->
           {"validate_format", "parse_file", "parse_line", "get_file_stats"}
      [] OTHER -> {}

\* What parse_file hands back: a generator of frame batches, or one dict
ParseFileYields(class) == IF class = "DBCParser" THEN "dict" ELSE "batches"

\* parser.get_file_stats(file_path) as upload_files sees it: "ok", or the
\* exception that leaves the call.  The single-dialect text parsers run
\* their parse_file over the whole file, with no try around parse_line.
GetFileStats(class, f) ==
    IF "get_file_stats" \notin Operations(class) THEN "AttributeError"
    ELSE IF /\ class \in Parsers
            /\ ~CatchesLineError(class)
            /\ \E i \in 1..Len(f.lines) :
                   /\ ReachesParseLine(class, f.lines[i])
                   /\ ParseLineOf(class, f.lines[i]).tag = "raise"
    THEN "ValueError"
    ELSE "ok"

\* FileUploadResponse (file_id, filename and size left out)
FileUploadResponse(format, status, message) ==
    [format |-> format, status |-> status, message |-> message]

\* The texts the files are made of: first lines and tool names
Text(lines, words) == [lines |-> lines, words |-> words]

Texts ==
    {Text(<<>>, {}), Text(<<LJunk>>, {}), Text(<<LSock>>, {}), Text(<<LAsc>>, {}),
     Text(<<LComment, LAsc>>, {}), Text(<<LBlank, LAsc>>, {}), Text(<<LAscOdd>>, {}),
     Text(<<LPcan>>, {}), Text(<<LSimple>>, {}), Text(<<LLin>>, {}),
     Text(<<LUds>>, {}), Text(<<LUdsToken>>, {}), Text(<<LJ1939Token>>, {}),
     Text(<<LJunk>>, {"Vector"}), Text(<<LJunk>>, {"CANoe"}), Text(<<LJunk>>, {"INCA"})}

MagicNames == {"LOGG", "date", "ole2", "xml", "pdf", "zip"}
XmlKinds == {"CANalyzer", "CANoe", "INCA", "other", "malformed"}

\* A readable file of text with no signature
TextFile(ext, t) == File(TRUE, TRUE, ext, "none", "malformed", t.lines, t.words)

\* The files handed to detection: every extension of the table; every text
\* under the ambiguous extensions and under an extension the table lacks
\* (".bin"); every signature; a file that cannot be opened and one that
\* does not exist
FilePool ==
    {TextFile(e, Text(<<LJunk>>, {})) : e \in DOMAIN extension_map \ AmbiguousExts}
    \cup {TextFile(".asc", Text(<<LAscOdd>>, {})), TextFile(".asc", Text(<<LAsc>>, {})),
          TextFile(".lin", Text(<<LLinOdd>>, {})), TextFile(".uds", Text(<<LUdsOdd>>, {}))}
    \cup {TextFile(e, t) : e \in AmbiguousExts \cup {".bin"}, t \in Texts}
    \cup {File(TRUE, TRUE, ".bin", m, x, <<LJunk>>, {}) :
              m \in MagicNames \ {"xml"}, x \in {"malformed"}}
    \cup {File(TRUE, TRUE, ".bin", "xml", x, <<LJunk>>, {}) : x \in XmlKinds}
    \cup {File(TRUE, FALSE, ".bin", "none", "malformed", <<>>, {}),
          File(FALSE, FALSE, ".bin", "none", "malformed", <<>>, {})}

\* auto_detector.detect_format(file_path), called on its own
DetectFormat(f) ==
    /\ auto.status # "uploading"
    /\ auto.responses = <<>>
    /\ auto' = [auto EXCEPT
                  !.status = IF f.exists THEN "returned" ELSE "raised",
                  !.path = Some(f),
                  !.result = IF f.exists THEN DetectFormatOf(f) ELSE None,
                  !.parser = None]
    /\ UNCHANGED <<parse, det, dbc, rule, exp>>

\* One iteration of `for file in files` of upload_files: the file was saved,
\* so it exists and can be read
UploadFile(f) ==
    /\ auto.status \in {"idle", "uploading"}
    /\ Len(auto.responses) < MaxUploads
    /\ f.exists /\ f.readable
    /\ LET detected_format == DetectFormatOf(f)
           parser == GetParser(detected_format)
           initial_stats == GetFileStats(parser, f)
           response ==
               IF initial_stats = "ok"
               THEN FileUploadResponse(detected_format, "success", "format detected")
               ELSE FileUploadResponse("unknown", "error", initial_stats)
       IN  auto' = [status |-> "uploading", path |-> Some(f),
                    result |-> detected_format, parser |-> parser,
                    responses |-> Append(auto.responses, response)]
    /\ UNCHANGED <<parse, det, dbc, rule, exp>>

\* `return responses`
UploadReturn ==
    /\ auto.status = "uploading"
    /\ auto' = [auto EXCEPT !.status = "responded"]
    /\ UNCHANGED <<parse, det, dbc, rule, exp>>

InitFormat == Idle

NextFormat ==
    \/ \E f \in FilePool : DetectFormat(f)
    \/ \E f \in FilePool : UploadFile(f)
    \/ UploadReturn

SpecFormat == InitFormat /\ [][NextFormat]_vars

(***************************************************************************)
(* Signal database: parsers/dbc_parser.py                                  *)
(*                                                                         *)
(* A database file is the sequence of its lines, each the record of what   *)
(* the loader's regular expressions extract from it.  Numbers of the file  *)
(* (factor, offset, minimum, maximum) are integers here; Python compares   *)
(* 0 and 0.0 equal, so a value is modelled as the number it is.            *)
(***************************************************************************)
\* Most parse_file calls made on the one DBCParser instance
MaxLoads == 2

\* dataclass Signal
Signal(name, start_bit, size, is_little_endian, is_signed, factor, offset, minimum, maximum, unit) ==
    [name |-> name, start_bit |-> start_bit, size |-> size,
     is_little_endian |-> is_little_endian, is_signed |-> is_signed,
     factor |-> factor, offset |-> offset, minimum |-> minimum,
     maximum |-> maximum, unit |-> unit]

\* dataclass Message
Message(id, name, dlc, sender, signals, cycle_time, is_extended) ==
    [id |-> id, name |-> name, dlc |-> dlc, sender |-> sender, signals |-> signals,
     cycle_time |-> cycle_time, is_extended |-> is_extended]

\* d[key] = value on a dict
Put(d, key, value) == [k \in DOMAIN d \cup {key} |-> IF k = key THEN value ELSE d[k]]

\* "BU_ <names>"
BuLine(names) == [kind |-> "BU_", names |-> names]
\* "BO_ <id> <name>: <dlc> <sender>"; complete says the whole grammar is
\* there (not only "BO_ <id>"), indent that the line starts with white space
BoLine(id, name, dlc, sender, complete, indent) ==
    [kind |-> "BO_", id |-> id, name |-> name, dlc |-> dlc, sender |-> sender,
     complete |-> complete, indent |-> indent]
\* " SG_ <name> : <start>|<size>@<order><sign> (<factor>,<offset>)
\*  [<min>|<max>] "<unit>" <receivers>"; matches says the line fits the
\* signal pattern, numeric that float() accepts its four number tokens
SgLine(sig, matches, numeric) ==
    [kind |-> "SG_", sig |-> sig, matches |-> matches, numeric |-> numeric]
\* "BA_DEF_ <scope> "<name>" <type>"
BaDefLine(scope, name, type) ==
    [kind |-> "BA_DEF_", scope |-> scope, name |-> name, type |-> type]
\* "BA_ "<name>" <value>;"
BaLine(name, value) == [kind |-> "BA_", name |-> name, value |-> value]
\* "VAL_ <id> <signal> (<int> "<label>")+ ;"
ValLine(id, signal_name, values) ==
    [kind |-> "VAL_", id |-> id, signal_name |-> signal_name, values |-> values]
\* a line none of the grammars matches
OtherLine == [kind |-> "other"]

\* The parser's fields, as one value the load steps pass along
Fields(d) ==
    [messages |-> d.messages, signals |-> d.signals, nodes |-> d.nodes,
     attributes |-> d.attributes, value_tables |-> d.value_tables]

RECURSIVE ParseNodesFrom(_, _, _)
ParseNodesFrom(nodes, lines, k) ==
    IF k > Len(lines) THEN nodes
    ELSE IF lines[k].kind = "BU_" THEN lines[k].names
    ELSE ParseNodesFrom(nodes, lines, k + 1)

\* DBCParser._parse_nodes: the first BU_ line, if there is one
ParseNodes(nodes, lines) == ParseNodesFrom(nodes, lines, 1)

RECURSIVE ParseMessagesFrom(_, _, _)
ParseMessagesFrom(messages, lines, k) ==
    IF k > Len(lines) THEN messages
    ELSE LET l == lines[k]
         IN  IF l.kind = "BO_" /\ l.complete
             THEN ParseMessagesFrom(
                      Put(messages, l.id,
                          Message(l.id, l.name, l.dlc, l.sender, <<>>, Nothing,
                                  l.id > 2047)),
                      lines, k + 1)
             ELSE ParseMessagesFrom(messages, lines, k + 1)

\* DBCParser._parse_messages
ParseMessages(messages, lines) == ParseMessagesFrom(messages, lines, 1)

\* Python truth of current_msg_id: None and 0 are false
Truthy(current_msg_id) == current_msg_id # Nothing /\ current_msg_id[1] # 0

RECURSIVE ParseSignalsFrom(_, _, _, _)
\* The loop of _parse_signals from line k on; raised is set when float()
\* rejects a number token, which ends the load with a ValueError
ParseSignalsFrom(fields, current_msg_id, lines, k) ==
    IF k > Len(lines) THEN [fields |-> fields, raised |-> FALSE]
    ELSE LET l == lines[k]
         IN  IF l.kind = "BO_"
             THEN ParseSignalsFrom(fields,
                                   IF l.indent THEN current_msg_id ELSE Some(l.id),
                                   lines, k + 1)
             ELSE IF /\ l.kind = "SG_"
                     /\ l.matches
                     /\ Truthy(current_msg_id)
                     /\ current_msg_id[1] \in DOMAIN fields.messages
             THEN IF ~l.numeric THEN [fields |-> fields, raised |-> TRUE]
                  ELSE LET m == fields.messages[current_msg_id[1]]
                       IN  ParseSignalsFrom(
                               [fields EXCEPT
                                  !.messages = Put(@, m.id,
                                      [m EXCEPT !.signals = Put(@, l.sig.name, l.sig)]),
                                  !.signals = Put(@, <<m.name, l.sig.name>>, l.sig)],
                               current_msg_id, lines, k + 1)
             ELSE ParseSignalsFrom(fields, current_msg_id, lines, k + 1)

\* DBCParser._parse_signals
ParseSignals(fields, lines) == ParseSignalsFrom(fields, Nothing, lines, 1)

RECURSIVE ParseAttrDefsFrom(_, _, _)
ParseAttrDefsFrom(attributes, lines, k) ==
    IF k > Len(lines) THEN attributes
    ELSE LET l == lines[k]
         IN  IF l.kind = "BA_DEF_" /\ l.name \notin DOMAIN attributes
             THEN ParseAttrDefsFrom(
                      Put(attributes, l.name,
                          [scope |-> l.scope, type |-> l.type, values |-> <<>>]),
                      lines, k + 1)
             ELSE ParseAttrDefsFrom(attributes, lines, k + 1)

RECURSIVE ParseAttrValuesFrom(_, _, _)
ParseAttrValuesFrom(attributes, lines, k) ==
    IF k > Len(lines) THEN attributes
    ELSE LET l == lines[k]
         IN  IF l.kind = "BA_" /\ l.name \in DOMAIN attributes
             THEN ParseAttrValuesFrom(
                      [attributes EXCEPT ![l.name].values = Put(@, "default", l.value)],
                      lines, k + 1)
             ELSE ParseAttrValuesFrom(attributes, lines, k + 1)

\* DBCParser._parse_attributes: the definitions, then the values
ParseAttributes(attributes, lines) ==
    ParseAttrValuesFrom(ParseAttrDefsFrom(attributes, lines, 1), lines, 1)

RECURSIVE ParseValueTablesFrom(_, _, _, _)
ParseValueTablesFrom(value_tables, messages, lines, k) ==
    IF k > Len(lines) THEN value_tables
    ELSE LET l == lines[k]
         IN  IF l.kind = "VAL_" /\ l.id \in DOMAIN messages
             THEN ParseValueTablesFrom(
                      Put(value_tables, <<messages[l.id].name, l.signal_name>>, l.values),
                      messages, lines, k + 1)
             ELSE ParseValueTablesFrom(value_tables, messages, lines, k + 1)

\* DBCParser._parse_value_tables
ParseValueTables(value_tables, messages, lines) ==
    ParseValueTablesFrom(value_tables, messages, lines, 1)

\* DBCParser._manual_parse: the fields after it, and whether a ValueError
\* left it (the fields then hold what was stored up to that point)
ManualParse(fields, lines) ==
    LET withNodes == [fields EXCEPT !.nodes = ParseNodes(@, lines)]
        withMessages == [withNodes EXCEPT !.messages = ParseMessages(@, lines)]
        sigs == ParseSignals(withMessages, lines)
        withAttributes == [sigs.fields EXCEPT !.attributes = ParseAttributes(@, lines)]
        withTables ==
            [withAttributes EXCEPT
               !.value_tables = ParseValueTables(@, withAttributes.messages, lines)]
    IN  IF sigs.raised THEN sigs ELSE [fields |-> withTables, raised |-> FALSE]

\* DBCParser._messages_to_dict, _signals_to_dict: the dict parse_file returns
\* ('statistics' left out, it is a function of the rest)
ToDict(fields) ==
    [messages |->
         [id \in DOMAIN fields.messages |->
              [id |-> fields.messages[id].id, name |-> fields.messages[id].name,
               dlc |-> fields.messages[id].dlc, sender |-> fields.messages[id].sender,
               is_extended |-> fields.messages[id].is_extended,
               cycle_time |-> fields.messages[id].cycle_time,
               signals |-> DOMAIN fields.messages[id].signals]],
     signals |-> fields.signals,
     nodes |-> fields.nodes,
     attributes |-> fields.attributes,
     value_tables |-> fields.value_tables]

\* (data[byte_index] >> bit_index) & 1, byte_index counted from 0
BitOf(data, byte_index, bit_index) == (data[byte_index + 1] \div (2 ^ bit_index)) % 2

RECURSIVE IntelFrom(_, _, _)
\* The Intel loop of _decode_signal from bit i on
IntelFrom(signal, data, i) ==
    IF i >= signal.size THEN 0
    ELSE LET byte_index == (signal.start_bit + i) \div 8
             bit_index == (signal.start_bit + i) % 8
         IN  (IF byte_index < Len(data) THEN BitOf(data, byte_index, bit_index) * (2 ^ i)
              ELSE 0)
             + IntelFrom(signal, data, i + 1)

RECURSIVE MotorolaFrom(_, _, _)
\* The Motorola loop of _decode_signal from bit i on
MotorolaFrom(signal, data, i) ==
    IF i >= signal.size THEN 0
    ELSE LET bit_position == signal.start_bit - i
             byte_index == bit_position \div 8
             bit_index == 7 - (bit_position % 8)
         IN  (IF 0 <= byte_index /\ byte_index < Len(data)
              THEN BitOf(data, byte_index, bit_index) * (2 ^ (signal.size - 1 - i))
              ELSE 0)
             + MotorolaFrom(signal, data, i + 1)

\* `len(data) * 8 < signal.start_bit + signal.size`
NotEnoughData(signal, data) == Len(data) * 8 < signal.start_bit + signal.size

\* The bits extracted, before the sign is applied
RawUnsigned(signal, data) ==
    IF signal.is_little_endian THEN IntelFrom(signal, data, 0)
    ELSE MotorolaFrom(signal, data, 0)

\* `1 << (signal.size - 1)` raises ValueError for size 0
SignShiftRaises(signal) == signal.is_signed /\ signal.size = 0

\* The value after `value -= (1 << signal.size)` where the top bit is set
RawValue(signal, data) ==
    LET value == RawUnsigned(signal, data)
    IN  IF signal.is_signed /\ (value \div (2 ^ (signal.size - 1))) % 2 = 1
        THEN value - 2 ^ signal.size
        ELSE value

\* The scaled value is returned as it is, whatever the range
DecodeSignalUnclamped(signal, data) ==
    IF NotEnoughData(signal, data) THEN 0
    ELSE RawValue(signal, data) * signal.factor + signal.offset

Min(a, b) == IF a <= b THEN a ELSE b
Max(a, b) == IF a >= b THEN a ELSE b

\* DBCParser._decode_signal, where it returns
DecodeSignal(signal, data) ==
    IF NotEnoughData(signal, data) THEN 0
    ELSE LET physical_value == RawValue(signal, data) * signal.factor + signal.offset
         IN  IF signal.minimum # 0 \/ signal.maximum # 0
             THEN Max(signal.minimum, Min(signal.maximum, physical_value))
             ELSE physical_value

\* decoded_signals[signal_name] as decode_message builds it
DecodedEntry(message, signal, data, value_tables) ==
    LET value == DecodeSignal(signal, data)
        key == <<message.name, signal.name>>
    IN  IF key \in DOMAIN value_tables /\ value \in DOMAIN value_tables[key]
        THEN [value |-> value, unit |-> signal.unit, text |-> value_tables[key][value]]
        ELSE [value |-> value, unit |-> signal.unit]

\* The signals of a message whose decoding ends in an exception, which
\* decode_message logs and passes over
Undecodable(message, data) ==
    {n \in DOMAIN message.signals :
         ~NotEnoughData(message.signals[n], data) /\ SignShiftRaises(message.signals[n])}

\* decode_message on the parser's own tables (self.db is None)
ManualDecode(messages, value_tables, can_id, data) ==
    IF can_id \notin DOMAIN messages THEN Nothing
    ELSE LET message == messages[can_id]
         IN  Some([message_name |-> message.name,
                   signals |->
                       [n \in DOMAIN message.signals \ Undecodable(message, data) |->
                            DecodedEntry(message, message.signals[n], data, value_tables)]])

(***************************************************************************)
(* The cantools library is not part of the repository.  It is modelled by  *)
(* what the loader relies on: load_file raises for a file it rejects and   *)
(* otherwise yields the database the DBC format defines for the lines;     *)
(* Message.decode raises for an unknown id or a payload shorter than the   *)
(* message, and otherwise yields the scaled values, with labels for the    *)
(* raw values that have one.                                               *)
(***************************************************************************)
RECURSIVE LibSignalsFrom(_, _, _, _)
LibSignalsFrom(messages, current, lines, k) ==
    IF k > Len(lines) THEN messages
    ELSE LET l == lines[k]
         IN  IF l.kind = "BO_" THEN LibSignalsFrom(messages, Some(l.id), lines, k + 1)
             ELSE IF l.kind = "SG_" /\ current # Nothing
             THEN LibSignalsFrom(
                      [messages EXCEPT ![current[1]].signals = Put(@, l.sig.name, l.sig)],
                      current, lines, k + 1)
             ELSE LibSignalsFrom(messages, current, lines, k + 1)

RECURSIVE LibCycleTimesFrom(_, _, _)
LibCycleTimesFrom(messages, lines, k) ==
    IF k > Len(lines) THEN messages
    ELSE LET l == lines[k]
         IN  IF /\ l.kind = "BA_"
                /\ l.name = "GenMsgCycleTime"
                /\ l.value[1] \in DOMAIN messages
             THEN LibCycleTimesFrom(
                      [messages EXCEPT ![l.value[1]].cycle_time = Some(l.value[2])],
                      lines, k + 1)
             ELSE LibCycleTimesFrom(messages, lines, k + 1)

RECURSIVE LibChoicesFrom(_, _, _, _)
LibChoicesFrom(choices, messages, lines, k) ==
    IF k > Len(lines) THEN choices
    ELSE LET l == lines[k]
         IN  IF l.kind = "VAL_" /\ l.id \in DOMAIN messages
             THEN LibChoicesFrom(
                      Put(choices, <<messages[l.id].name, l.signal_name>>, l.values),
                      messages, lines, k + 1)
             ELSE LibChoicesFrom(choices, messages, lines, k + 1)

\* cantools.database.load_file(path) for a file the library accepts
LoadFile(lines) ==
    LET messages ==
            LibCycleTimesFrom(
                LibSignalsFrom(ParseMessages(<<>>, lines), Nothing, lines, 1), lines, 1)
    IN  [nodes |-> ParseNodes(<<>>, lines), messages |-> messages,
         choices |-> LibChoicesFrom(<<>>, messages, lines, 1)]

\* d.update(e)
Update(d, e) == [k \in DOMAIN d \cup DOMAIN e |-> IF k \in DOMAIN e THEN e[k] ELSE d[k]]

\* The keys "<message>.<signal>" of the signals of the database
LibSignalKeys(db) ==
    UNION {{<<db.messages[id].name, n>> : n \in DOMAIN db.messages[id].signals} :
               id \in DOMAIN db.messages}

\* The signal a key names: the last message of that name wins
LibSignalOf(db, key) ==
    LET ids == {id \in DOMAIN db.messages :
                    /\ db.messages[id].name = key[1]
                    /\ key[2] \in DOMAIN db.messages[id].signals}
        id == CHOOSE id \in ids : \A other \in ids : other <= id
    IN  db.messages[id].signals[key[2]]

\* DBCParser._extract_from_cantools
ExtractFromCantools(fields, db) ==
    [fields EXCEPT
       !.nodes = db.nodes,
       !.messages = Update(@, db.messages),
       !.signals = Update(@, [key \in LibSignalKeys(db) |-> LibSignalOf(db, key)]),
       !.value_tables = Update(@, db.choices)]

\* The DBC bit walk of a big-endian signal: from the start bit down to bit 0
\* of its byte, then on from bit 7 of the next byte
NextBigEndianBit(position) == IF position % 8 = 0 THEN position + 15 ELSE position - 1

RECURSIVE LibBigEndianFrom(_, _, _, _)
LibBigEndianFrom(signal, data, position, i) ==
    IF i >= signal.size THEN 0
    ELSE BitOf(data, position \div 8, position % 8) * (2 ^ (signal.size - 1 - i))
         + LibBigEndianFrom(signal, data, NextBigEndianBit(position), i + 1)

\* The value the library reports for a signal: the label of the raw value
\* if it has one, else raw * scale + offset
LibValue(db, message, signal, data) ==
    LET unsigned == IF signal.is_little_endian THEN IntelFrom(signal, data, 0)
                    ELSE LibBigEndianFrom(signal, data, signal.start_bit, 0)
        raw == IF signal.is_signed /\ unsigned >= 2 ^ (signal.size - 1)
               THEN unsigned - 2 ^ signal.size ELSE unsigned
        key == <<message.name, signal.name>>
    IN  IF key \in DOMAIN db.choices /\ raw \in DOMAIN db.choices[key]
        THEN db.choices[key][raw]
        ELSE raw * signal.factor + signal.offset

\* decode_message through the library (self.db is set): any exception of
\* the library is caught and None returned
LibDecode(db, can_id, data) ==
    IF can_id \notin DOMAIN db.messages THEN Nothing
    ELSE LET message == db.messages[can_id]
         IN  IF Len(data) < message.dlc THEN Nothing
             ELSE Some([message_name |-> message.name,
                        signals |-> [n \in DOMAIN message.signals |->
                                         LibValue(db, message, message.signals[n], data)]])

\* A database file: whether it exists, whether the library loads it, and
\* its lines
DbcFile(exists, lib_ok, lines) == [exists |-> exists, lib_ok |-> lib_ok, lines |-> lines]

\* SG_ Speed : 0|8@1+ (2,0) [0|0] "rpm"
Speed == Signal("Speed", 0, 8, TRUE, FALSE, 2, 0, 0, 0, "rpm")
\* SG_ Temp : 8|8@1- (1,0) [-40|100] "degC"
Temp == Signal("Temp", 8, 8, TRUE, TRUE, 1, 0, 0 - 40, 100, "degC")
\* SG_ Gear : 7|4@0+ (1,0) [0|0] ""
Gear == Signal("Gear", 7, 4, FALSE, FALSE, 1, 0, 0, 0, "")
\* SG_ Flag : 0|1@1+ (1,0) [0|0] ""
Flag == Signal("Flag", 0, 1, TRUE, FALSE, 1, 0, 0, 0, "")
\* SG_ Load : 0|8@1+ (1,0) [0|100] "%"
Load == Signal("Load", 0, 8, TRUE, FALSE, 1, 0, 0, 100, "%")
\* SG_ Trim : 0|8@1- (1,0) [-10|0] ""
Trim == Signal("Trim", 0, 8, TRUE, TRUE, 1, 0, 0 - 10, 0, "")

\* BO_ 256 EngineData: 2 ECU, with two signals and the labels of Speed
EngineLines ==
    <<BuLine(<<"ECU", "TCU">>),
      BoLine(256, "EngineData", 2, "ECU", TRUE, FALSE),
      SgLine(Speed, TRUE, TRUE), SgLine(Temp, TRUE, TRUE),
      ValLine(256, "Speed", (0 :> "Stopped") @@ (2 :> "Idle"))>>

\* BO_ 512 Status: 1 TCU, with a big-endian signal, two signals with a
\* range that has 0 at one end, and a cycle time
StatusLines ==
    <<BoLine(512, "Status", 1, "TCU", TRUE, FALSE), SgLine(Gear, TRUE, TRUE),
      SgLine(Load, TRUE, TRUE), SgLine(Trim, TRUE, TRUE),
      BaDefLine("BO_", "GenMsgCycleTime", "INT"),
      BaLine("GenMsgCycleTime", <<512, 100>>)>>

\* BO_ 0 Heartbeat: 1 ECU, a message with id 0
ZeroLines == <<BoLine(0, "Heartbeat", 1, "ECU", TRUE, FALSE), SgLine(Flag, TRUE, TRUE)>>

\* A signal line whose factor is not a number
BadNumberLines ==
    <<BoLine(256, "EngineData", 2, "ECU", TRUE, FALSE), SgLine(Speed, TRUE, FALSE)>>

\* An indented message line and a signal line that misses the pattern
LooseLines ==
    <<BoLine(256, "EngineData", 2, "ECU", TRUE, TRUE), SgLine(Speed, TRUE, TRUE),
      SgLine(Temp, FALSE, TRUE)>>

\* SG_ Wide : 4|8@1+ (1,0) [0|0] ""
Wide == Signal("Wide", 4, 8, TRUE, FALSE, 1, 0, 0, 0, "")

\* BO_ 768 Burst: 1 ECU, with a signal that ends beyond the one byte of the
\* message; the library rejects a database with such a signal
WideLines == <<BoLine(768, "Burst", 1, "ECU", TRUE, FALSE), SgLine(Wide, TRUE, TRUE)>>

\* The database files loaded: those the library loads, the same files when
\* it rejects them, files neither path finds a definition in, a file that
\* does not exist, a file with a signal too wide for its message
DbcFiles ==
    <<DbcFile(TRUE, TRUE, EngineLines), DbcFile(TRUE, FALSE, EngineLines),
      DbcFile(TRUE, TRUE, StatusLines), DbcFile(TRUE, FALSE, StatusLines),
      DbcFile(TRUE, TRUE, ZeroLines), DbcFile(TRUE, FALSE, ZeroLines),
      DbcFile(TRUE, FALSE, BadNumberLines), DbcFile(TRUE, FALSE, LooseLines),
      DbcFile(TRUE, FALSE, <<OtherLine>>), DbcFile(TRUE, FALSE, <<>>),
      DbcFile(FALSE, FALSE, <<>>), DbcFile(TRUE, FALSE, WideLines)>>

\* The ids and payloads handed to decode_message
CanIds == {0, 256, 512}
Payloads == {<<>>, <<0>>, <<2>>, <<0, 0>>, <<1, 0>>, <<255, 200>>}

\* The parser with its fields replaced by those a load step leaves
WithFields(d, fields) ==
    [d EXCEPT !.messages = fields.messages, !.signals = fields.signals,
              !.nodes = fields.nodes, !.attributes = fields.attributes,
              !.value_tables = fields.value_tables]

\* DBCParser.parse_file(dbc_path) on file number k, on the one instance the
\* detector's registry holds
ParseFile(k) ==
    /\ Len(dbc.loads) < MaxLoads
    /\ LET file == DbcFiles[k]
           called == [dbc EXCEPT !.loads = Append(@, k), !.call = Nothing,
                                 !.decoded = Nothing, !.returned = Nothing]
       IN  dbc' =
             IF ~file.exists
             THEN [called EXCEPT !.status = "FileNotFoundError"]
             ELSE IF file.lib_ok
             THEN LET db == LoadFile(file.lines)
                      fields == ExtractFromCantools(Fields(dbc), db)
                  IN  [WithFields(called, fields) EXCEPT
                         !.status = "loaded", !.db = Some(db),
                         !.returned = Some(ToDict(fields))]
             ELSE LET r == ManualParse(Fields(dbc), file.lines)
                  IN  IF r.raised
                      THEN [WithFields(called, r.fields) EXCEPT !.status = "ValueError"]
                      ELSE [WithFields(called, r.fields) EXCEPT
                              !.status = "loaded", !.returned = Some(ToDict(r.fields))]
    /\ UNCHANGED <<parse, det, auto, rule, exp>>

\* DBCParser.decode_message(can_id, data)
DecodeMessage(can_id, data) ==
    /\ dbc.loads # <<>>
    /\ dbc' = [dbc EXCEPT
                 !.status = "decoded",
                 !.call = Some([can_id |-> can_id, data |-> data]),
                 !.decoded = IF dbc.db # Nothing THEN LibDecode(dbc.db[1], can_id, data)
                             ELSE ManualDecode(dbc.messages, dbc.value_tables, can_id, data)]
    /\ UNCHANGED <<parse, det, auto, rule, exp>>

InitDbc == Idle

NextDbc ==
    \/ \E k \in 1..Len(DbcFiles) : ParseFile(k)
    \/ \E can_id \in CanIds, data \in Payloads : DecodeMessage(can_id, data)

SpecDbc == InitDbc /\ [][NextDbc]_vars

(***************************************************************************)
(* Properties of the fault detector                                        *)
(***************************************************************************)
IsAscending(errors) ==
    \A i \in 1..(Len(errors) - 1) : errors[i].timestamp <= errors[i + 1].timestamp

\* C1: the fault list detect_errors returns is in non-decreasing timestamp
\* order, whatever the chunks (frame lists, text blocks) and the layout.
C1_ErrorsAscending == det.status = "done" => IsAscending(det.errors)

\* An analysis of two chunks whose faults were collected out of time order
C1_Witness ==
    /\ det.status = "done"
    /\ Len(det.log_data) = 2
    /\ Len(det.errors) >= 2
    /\ ~IsAscending(CollectErrors(det.log_data, det.dbc_data))

\* The gap and timeout faults of a fault list
TimingFaults(errors) ==
    SelectSeq(errors, LAMBDA e : e.error_type \in {"BUS_OFF", "TIMEOUT"})

Count(s, x) == Cardinality({i \in 1..Len(s) : s[i] = x})

\* The same faults, each as often, in any order
SameFaults(a, b) ==
    /\ Len(a) = Len(b)
    /\ \A i \in 1..Len(a) : Count(a, a[i]) = Count(b, a[i])

RECURSIVE AllFrames(_)
\* The frames of all chunks, as one stream
AllFrames(log_data) ==
    IF log_data = <<>> THEN <<>> ELSE Head(log_data).items \o AllFrames(Tail(log_data))

\* C2: for a frame stream in time order split into consecutive chunks, the
\* timing-gap and periodic-timeout faults reported are those reported when
\* the whole stream is passed as one chunk.
C2_TimingFaultsIgnoreChunking ==
    (/\ det.status = "done"
     /\ \A i \in 1..Len(det.log_data) : det.log_data[i].kind = "list"
     /\ IsAscending(AllFrames(det.log_data)))
    => SameFaults(TimingFaults(det.errors),
                  TimingFaults(DetectErrorsOf(<<Chunk("list", AllFrames(det.log_data))>>,
                                              det.dbc_data)))

(***************************************************************************)
(* Properties of the streaming parsers                                     *)
(***************************************************************************)
\* Every message a parse has produced so far, emitted or still buffered
Produced == Flatten(parse.batches) \o parse.messages_buffer

RECURSIVE FramesOfLines(_)
\* The frames CANParser.parse_line makes of the lines of a file, in file order
FramesOfLines(ls) ==
    IF ls = <<>> THEN <<>>
    ELSE (IF ~IsBlankOrComment(Head(ls)) /\ CANParseLine(Head(ls)).tag = "msg"
          THEN <<CANParseLine(Head(ls)).msg>> ELSE <<>>) \o FramesOfLines(Tail(ls))

\* C3: for every text-dialect parser and every file content, iterating
\* parse_file never ends in an exception: a line that cannot be turned into
\* a frame is skipped and the parse goes on.
C3_ParseNeverAborts == parse.status # "raised"

\* C4: every frame a parser produces carries exactly as many payload bytes
\* as its DLC declares (a line that cannot satisfy this is rejected).
C4_PayloadLengthIsDlc ==
    \A i \in 1..Len(Produced) :
        "dlc" \in DOMAIN Produced[i] => Len(Produced[i].data) = Produced[i].dlc

\* C5 as stated: for any chunk_size, every emitted batch holds at most
\* chunk_size frames.
C5_BatchAtMostChunkSizeAny ==
    \A i \in 1..Len(parse.batches) : Len(parse.batches[i]) <= parse.chunk_size

\* C5 amended: for every chunk_size >= 1, every emitted batch holds at most
\* chunk_size frames.
C5_BatchAtMostChunkSize ==
    parse.chunk_size >= 1 =>
        \A i \in 1..Len(parse.batches) : Len(parse.batches[i]) <= parse.chunk_size

\* A finished CANParser parse with chunk_size 2 that emitted a full batch
\* and then a partial last one
C5_Witness ==
    /\ parse.status = "done"
    /\ parse.parser = "CANParser"
    /\ parse.chunk_size = 2
    /\ Len(parse.batches) = 2
    /\ Len(parse.batches[1]) = 2
    /\ Len(parse.batches[2]) = 1

\* C6: when CANParser.parse_file has run to completion, the concatenation
\* of its batches is the sequence of frames of the grammar-matching lines
\* of the file, in file order; only blank, comment and header lines are
\* dropped.
C6_BatchesAreFramesOfLines ==
    (parse.status = "done" /\ parse.parser = "CANParser") =>
        Flatten(parse.batches) = FramesOfLines(parse.lines)

(***************************************************************************)
(* Properties of format detection                                          *)
(***************************************************************************)
\* All four strategies of detect_format come up empty for the file
Inconclusive(f) ==
    /\ f.exists
    /\ f.ext \notin DOMAIN extension_map
    /\ DetectByMagic(f) = None
    /\ DetectByContent(f) = None
    /\ DetectByParsing(f) = None

\* One of the strategies settles the file's format
Definite(f) == f.exists /\ ~Inconclusive(f)

\* For an existing file detect_format returns
DetectFormatReturns ==
    (auto.status \in {"returned", "raised"} /\ auto.path[1].exists)
        => auto.status = "returned"

\* The fallback returns the generic CAN text dialect
FallbackIsCanLog ==
    (auto.status = "returned" /\ Inconclusive(auto.path[1])) => auto.result = "can_log"

\* C7: for every existing file detect_format returns without raising, and
\* when the extension, magic-byte, content and trial-parse strategies are all
\* inconclusive the value it returns is the generic CAN dialect in a form the
\* caller can tell from the value returned for a definite match.
C7_FallbackIsDistinguishable ==
    /\ DetectFormatReturns
    /\ FallbackIsCanLog
    /\ (auto.status = "returned" /\ Inconclusive(auto.path[1]))
           => \A g \in FilePool : Definite(g) => DetectFormatOf(g) # auto.result

\* The operations upload_files and the analysis need of a parser
RequiredOperations == {"validate_format", "parse_file", "get_file_stats"}

\* C8: the parser get_parser returns for the tag detect_format returned
\* supports validate_format, parse_file (yielding frame batches) and
\* get_file_stats, so the upload never fails for lack of an operation.
C8_ParserSupportsAllOperations ==
    auto.status \in {"uploading", "responded"} =>
        /\ RequiredOperations \subseteq Operations(auto.parser)
        /\ ParseFileYields(auto.parser) = "batches"
        /\ auto.responses[Len(auto.responses)].message # "AttributeError"

\* The same, for every tag but the database's
C8_AllButDbc ==
    (auto.status \in {"uploading", "responded"} /\ auto.result # "dbc") =>
        /\ RequiredOperations \subseteq Operations(auto.parser)
        /\ ParseFileYields(auto.parser) = "batches"
        /\ auto.responses[Len(auto.responses)].message # "AttributeError"

(***************************************************************************)
(* Properties of the signal database                                       *)
(***************************************************************************)
\* The call decode_message just answered from the parser's own tables
OwnDecode ==
    /\ dbc.status = "decoded"
    /\ dbc.db = Nothing
    /\ dbc.call[1].can_id \in DOMAIN dbc.messages

\* C9: decoding a signal from a payload with fewer bits than it needs does
\* not raise and yields the value zero in an entry that tells the caller the
\* data was insufficient: the entry differs from the one a payload that is
\* long enough and decodes to zero yields.
C9_InsufficientDataIsFlagged ==
    OwnDecode =>
        LET message == dbc.messages[dbc.call[1].can_id]
            data == dbc.call[1].data
        IN  \A n \in DOMAIN message.signals :
                NotEnoughData(message.signals[n], data) =>
                    /\ dbc.decoded # Nothing
                    /\ n \in DOMAIN dbc.decoded[1].signals
                    /\ dbc.decoded[1].signals[n].value = 0
                    /\ \A d \in Payloads :
                           (/\ ~NotEnoughData(message.signals[n], d)
                            /\ DecodeSignal(message.signals[n], d) = 0)
                           => DecodedEntry(message, message.signals[n], d,
                                           dbc.value_tables)
                                  # dbc.decoded[1].signals[n]

\* The part of C9 the decoder keeps: no exception, and the value zero
InsufficientDataDecodesToZero ==
    OwnDecode =>
        LET message == dbc.messages[dbc.call[1].can_id]
        IN  \A n \in DOMAIN message.signals :
                NotEnoughData(message.signals[n], dbc.call[1].data) =>
                    /\ dbc.decoded # Nothing
                    /\ n \in DOMAIN dbc.decoded[1].signals
                    /\ dbc.decoded[1].signals[n].value = 0

\* The library rejects the file and the fallback finds no definition in it
\* (no line matches any of its grammars) or stops on a number it cannot read
FailsBothPaths(file) ==
    /\ file.exists
    /\ ~file.lib_ok
    /\ \/ file.lines # <<>> /\ \A i \in 1..Len(file.lines) : file.lines[i].kind = "other"
       \/ ManualParse(Fields(DbcIdle), file.lines).raised

\* C10: a load of a file that neither the library nor the fallback grammar
\* parser can parse ends in an error (the DatabaseLoadError) and returns no
\* layout.
C10_FailedLoadReturnsNoLayout ==
    (/\ dbc.status \in {"loaded", "ValueError", "FileNotFoundError"}
     /\ FailsBothPaths(DbcFiles[dbc.loads[Len(dbc.loads)]]))
        => dbc.status # "loaded" /\ dbc.returned = Nothing

(***************************************************************************)
(* Format detection and read failures                                      *)
(***************************************************************************)
\* C11: a file that is missing or cannot be read is reported by detect_format
\* as an error; no strategy turns the read failure into a dialect tag.
C11_ReadFailureIsReported ==
    (/\ auto.status \in {"returned", "raised"}
     /\ (~auto.path[1].exists \/ ~auto.path[1].readable))
        => auto.status = "raised"

\* The part of C11 detect_format keeps: a missing file raises
MissingFileRaises ==
    (auto.status \in {"returned", "raised"} /\ ~auto.path[1].exists)
        => auto.status = "raised"

(***************************************************************************)
(* Re-serialising a frame: CANMessage.__str__ and CANMessage.to_dict       *)
(***************************************************************************)
\* f"{self.can_id:08X}"
Format08X(can_id) == FormatHex(can_id, 8)

\* self.data.hex(), and the digits of ' '.join(f'{b:02X}' for b in self.data)
BytesHex(data) == Flatten([i \in 1..Len(data) |-> <<data[i] \div 16, data[i] % 16>>])

\* The line CANParser.parse_file has just read is a socket-style line
SocketLineRead ==
    /\ parse.parser = "CANParser"
    /\ parse.lines # <<>>
    /\ Matches("socketcan", parse.lines[Len(parse.lines)])
    /\ ReachesParseLine("CANParser", parse.lines[Len(parse.lines)])

\* C12: for every line matching the socket-style grammar, parse_line makes
\* a frame whose re-serialised id is the hex id token of the line and whose
\* re-serialised data is the hex data of the line, digit for digit.
C12_SocketLineRoundTrips ==
    SocketLineRead =>
        LET l == parse.lines[Len(parse.lines)]
            r == CANParseLine(l)
        IN  /\ r.tag = "msg"
            /\ Format08X(r.msg.can_id) = l.id
            /\ BytesHex(r.msg.data) = l.hex

\* What the round trip does keep: the value of the id, and the data of a
\* line with an even number of hex digits
SocketLineKeepsValue ==
    SocketLineRead =>
        LET l == parse.lines[Len(parse.lines)]
            r == CANParseLine(l)
        IN  r.tag = "msg" =>
                /\ HexToInt(Format08X(r.msg.can_id)) = HexToInt(l.id)
                /\ BytesHex(r.msg.data) = l.hex

(***************************************************************************)
(* Report exporters: utils/csv_exporter.py, utils/html_exporter.py         *)
(*                                                                         *)
(* A dict is the sequence of its (key, value) pairs in insertion order.    *)
(* The CSV text is the sequence of its rows, a row the tuple of its cells; *)
(* the HTML text is the sequence of its blocks, a block its heading and    *)
(* the text lines under it.  Numbers in cells are already text.            *)
(***************************************************************************)
\* Section names a request lists in include_sections
MaxSections == 2

\* dict.get(key, default)
Get(dict, key, default) ==
    IF \E i \in DOMAIN dict : dict[i][1] = key
    THEN dict[CHOOSE i \in DOMAIN dict : dict[i][1] = key][2]
    ELSE default

\* Every section counts as listed
ListedAlways(section, include_sections) == TRUE

\* `section in include_sections` for a list
Listed(section, include_sections) ==
    \E i \in DOMAIN include_sections : include_sections[i] = section

\* An entry of results['errors']: a dict, or anything else (here a text)
ErrorDict(pairs) == [dict |-> TRUE, value |-> pairs]
ErrorText(text) == [dict |-> FALSE, value |-> text]

RECURSIVE JoinItems(_)
\* ", ".join of the 'key': 'value' items of a dict of texts
JoinItems(pairs) ==
    IF pairs = <<>> THEN ""
    ELSE (IF Len(pairs) > 1 THEN JoinItems(Front(pairs)) \o ", " ELSE "")
         \o "'" \o pairs[Len(pairs)][1] \o "': '" \o pairs[Len(pairs)][2] \o "'"

\* str(error) as an f-string renders it
StrOfError(error) ==
    IF error.dict THEN "{" \o JoinItems(error.value) \o "}" ELSE error.value

\* writer.writerow(['Section', 'Type', 'Description', 'Timestamp', 'Severity'])
CsvHeader == <<"Section", "Type", "Description", "Timestamp", "Severity">>

\* CSVExporter.export: the rows written, in order
CsvExport(analysis_data, include_sections) ==
    LET results == Get(analysis_data, "results", <<>>)
        errors == Get(results, "errors", <<>>)
        patterns == Get(results, "patterns", <<>>)
        timeline == Get(results, "timeline", <<>>)
        stats == Get(results, "statistics", <<>>)
        ErrorRow(error) ==
            IF error.dict
            THEN <<"Errors", Get(error.value, "type", "Unknown"),
                   Get(error.value, "description", "N/A"),
                   Get(error.value, "timestamp", "N/A"),
                   Get(error.value, "severity", "N/A")>>
            ELSE <<"Errors", "Error", StrOfError(error), "N/A", "N/A">>
    IN  <<CsvHeader>>
        \o (IF Listed("errors", include_sections)
            THEN [i \in DOMAIN errors |-> ErrorRow(errors[i])] ELSE <<>>)
        \o (IF Listed("patterns", include_sections)
            THEN [i \in DOMAIN patterns |->
                    <<"Patterns", patterns[i][1], ToString(patterns[i][2]), "N/A", "Info">>]
            ELSE <<>>)
        \o (IF Listed("timeline", include_sections)
            THEN <<<<"Timeline", "Timeline Data",
                     "Events: " \o ToString(Len(Get(timeline, "events", <<>>))),
                     "N/A", "Info">>>>
            ELSE <<>>)
        \o (IF Listed("statistics", include_sections)
            THEN [i \in DOMAIN stats |->
                    <<"Statistics", stats[i][1], ToString(stats[i][2]), "N/A", "Info">>]
            ELSE <<>>)

\* A block of the HTML report
Block(heading, body) == [heading |-> heading, body |-> body]

\* str.title() of the section names in use
Title(section) ==
    CASE section = "errors" -> "Errors"
      [] section = "patterns" -> "Patterns"
      [] section = "timeline" -> "Timeline"
      [] section = "statistics" -> "Statistics"
      [] section = "summary" -> "Summary"
      [] OTHER -> section

\* HTMLExporter._render_section
RenderSection(section, data) ==
    LET results == Get(data, "results", <<>>)
        errors == Get(results, "errors", <<>>)
        patterns == Get(results, "patterns", <<>>)
    IN  CASE section = "errors" ->
               Block("Errors Detected", [i \in DOMAIN errors |-> StrOfError(errors[i])])
          [] section = "patterns" ->
               Block("Patterns Analysis",
                     <<"{" \o JoinItems([i \in DOMAIN patterns |->
                          <<patterns[i][1], ToString(patterns[i][2])>>]) \o "}">>)
          [] section = "timeline" ->
               Block("Timeline Data", <<"Timeline visualization data available">>)
          [] OTHER -> Block(Title(section), <<"Section data available">>)

\* The report header and the analysis summary every HTML report starts with
HtmlHeader(analysis_data) ==
    <<Block("<!DOCTYPE html>", <<"Automotive Analysis Report">>),
      Block("Automotive Debug Analysis Report", <<"Generated: now">>),
      Block("Analysis Summary",
            <<"Analysis ID: " \o Get(analysis_data, "analysis_id", "N/A"),
              "Files Processed: " \o ToString(Len(Get(analysis_data, "files", <<>>)))>>)>>

\* HTMLExporter.export: the blocks of the report, in order
HtmlExport(analysis_data, include_sections) ==
    HtmlHeader(analysis_data)
    \o [i \in DOMAIN include_sections |-> RenderSection(include_sections[i], analysis_data)]

\* tests/test_utils.py sample_analysis_data, shortened
SampleResults ==
    <<<<"errors", <<ErrorDict(<<<<"type", "BusOff">>, <<"description", "Bus off detected">>,
                                <<"timestamp", "0.5">>, <<"severity", "Critical">>>>),
                    ErrorDict(<<<<"description", "no type">>>>),
                    ErrorText("plain text")>>>>,
      <<"patterns", <<<<"bus_load", 75>>>>>>,
      <<"timeline", <<<<"events", <<0, 10>>>>>>>>,
      <<"statistics", <<<<"total_messages", 50000>>, <<"unique_ids", 150>>>>>>>>

\* Analysis results handed to an exporter, indexed 1..4: the sample, empty
\* results, no results at all, and errors only
AnalysisPool ==
    <<<<<<"analysis_id", "test_analysis_123">>, <<"files", <<"a.log">>>>,
        <<"results", SampleResults>>>>,
      <<<<"analysis_id", "empty_test">>, <<"results", <<>>>>>>,
      <<>>,
      <<<<"results", <<SampleResults[1]>>>>>>>>

SectionNames == {"errors", "patterns", "timeline", "statistics", "summary"}

\* Lists of at most MaxSections section names
SectionLists == UNION {[1..n -> SectionNames] : n \in 0..MaxSections}

\* await CSVExporter().export(analysis_data, include_sections)
ExportCsv(k, include_sections) ==
    /\ exp.status = "idle"
    /\ exp' = [status |-> "returned", exporter |-> "CSVExporter",
               results |-> Get(AnalysisPool[k], "results", <<>>),
               include_sections |-> include_sections,
               content |-> CsvExport(AnalysisPool[k], include_sections)]
    /\ UNCHANGED <<parse, det, auto, dbc, rule>>

\* await HTMLExporter().export(analysis_data, include_sections)
ExportHtml(k, include_sections) ==
    /\ exp.status = "idle"
    /\ exp' = [status |-> "returned", exporter |-> "HTMLExporter",
               results |-> Get(AnalysisPool[k], "results", <<>>),
               include_sections |-> include_sections,
               content |-> HtmlExport(AnalysisPool[k], include_sections)]
    /\ UNCHANGED <<parse, det, auto, dbc, rule>>

InitExport == Idle

NextExport ==
    \/ \E k \in DOMAIN AnalysisPool, s \in SectionLists : ExportCsv(k, s)
    \/ \E k \in DOMAIN AnalysisPool, s \in SectionLists : ExportHtml(k, s)

SpecExport == InitExport /\ [][NextExport]_vars

(***************************************************************************)
(* Properties of the report exporters                                      *)
(***************************************************************************)
\* The include_sections name a row of the CSV belongs to
SectionOfRow(row) ==
    CASE row[1] = "Errors" -> "errors"
      [] row[1] = "Patterns" -> "patterns"
      [] row[1] = "Timeline" -> "timeline"
      [] row[1] = "Statistics" -> "statistics"
      [] OTHER -> None

\* The include_sections names whose block has the given heading
SectionsOfHeading(heading) ==
    {s \in SectionNames : RenderSection(s, <<>>).heading = heading}

\* The names the request of the last export lists
NamesListed == {exp.include_sections[i] : i \in DOMAIN exp.include_sections}

\* C13: the content of a section is rendered only if the section is listed
\* in include_sections, and the fixed preamble (the CSV header row, the HTML
\* report header) is always there, also for empty analysis results.
C13_OnlyListedSectionsAndPreamble ==
    /\ exp.exporter = "CSVExporter" =>
         /\ exp.content # <<>> /\ exp.content[1] = CsvHeader
         /\ \A i \in 2..Len(exp.content) :
                SectionOfRow(exp.content[i]) \in NamesListed
    /\ exp.exporter = "HTMLExporter" =>
         /\ Len(exp.content) >= 3
         /\ exp.content[1].heading = "<!DOCTYPE html>"
         /\ exp.content[2].heading = "Automotive Debug Analysis Report"
         /\ \A i \in 4..Len(exp.content) :
                SectionsOfHeading(exp.content[i].heading) \cap NamesListed # {}

\* A CSV export of the sample that lists the errors only has written the
\* header and the three error rows, and none of the pattern rows
C13_Witness ==
    /\ exp.exporter = "CSVExporter"
    /\ exp.include_sections = <<"errors">>
    /\ Get(exp.results, "patterns", <<>>) # <<>>
    /\ Len(exp.content) = 4

(***************************************************************************)
(* The rules of the fault detector, each called on one collection          *)
(***************************************************************************)
\* Frames in the collection a timing rule is called on
MaxFrames == 3

\* Frame times that give gaps of 100, 150, 250, 300 and 400 ms
RuleTimestamps == {0, 100, 250, 400}

TimingFrames == {DFrame(ts, id, FALSE, 1, <<0>>) : ts \in RuleTimestamps, id \in {256, 512}}

\* Collections of at most n frames of a pool
FrameLists(pool, n) == UNION {[1..k -> pool] : k \in 0..n}

\* Both ids are sent periodically: 0x100 every 75 ms, 0x200 every 50 ms
LayoutBoth ==
    [given |-> TRUE,
     messages |-> (256 :> [name |-> "M256", dlc |-> 1, cycle_time |-> Some(75)]
                   @@ 512 :> [name |-> "M512", dlc |-> 1, cycle_time |-> Some(50)]),
     order |-> <<256, 512>>]

\* The values of dbc_data the periodic-timeout rule is called with
RuleLayouts == <<NoLayout, Layout, LayoutBoth>>

\* What a call of a rule leaves behind: the rule's name, its arguments and
\* its result
RuleCall(name, args, returned) ==
    /\ rule' = [status |-> "returned", rule |-> name, args |-> args, returned |-> returned]
    /\ UNCHANGED <<parse, det, auto, dbc, exp>>

\* self._detect_bus_off(messages), the first call on a detector
CallDetectBusOff ==
    /\ rule.status = "idle"
    /\ \E messages \in FrameLists(TimingFrames, MaxFrames) :
          RuleCall("_detect_bus_off", <<messages>>, DetectBusOff(messages))

\* self._detect_timeouts(messages, dbc_data)
CallDetectTimeouts ==
    /\ rule.status = "idle"
    /\ \E messages \in FrameLists(TimingFrames, MaxFrames), k \in DOMAIN RuleLayouts :
          RuleCall("_detect_timeouts", <<messages, k>>,
                   DetectTimeouts(messages, RuleLayouts[k]))

\* Frames in the collection a diagnostic rule is called on
MaxDiagFrames == 2

\* Extended ids with PGN 0xFECA (DM1), 0xFECB (DM2) and 0xFEF1, and the
\* standard id 0x123
J1939Ids == {419351040, 419351296, 419361024, 291}

\* Payloads: 00 00 5B 04 12 00 00 00 (one code, SPN 1115 FMI 18), its first
\* six and five bytes, eight zero bytes (SPN 0), 00 00 00 00 20 00 00 00
\* (SPN 65536, from the top three bits of the third byte alone) and ten
\* bytes holding two codes
J1939Payloads ==
    {<<0, 0, 91, 4, 18, 0, 0, 0>>, <<0, 0, 91, 4, 18, 0>>, <<0, 0, 91, 4, 18>>,
     <<0, 0, 0, 0, 0, 0, 0, 0>>, <<0, 0, 0, 0, 32, 0, 0, 0>>,
     <<0, 0, 91, 4, 18, 0, 1, 0, 224, 0>>}

J1939Frames == {DFrame(0, id, FALSE, Len(data), data) : id \in J1939Ids, data \in J1939Payloads}

\* self._detect_j1939_dtc(messages)
CallDetectJ1939Dtc ==
    /\ rule.status = "idle"
    /\ \E messages \in FrameLists(J1939Frames, MaxDiagFrames) :
          RuleCall("_detect_j1939_dtc", <<messages>>, DetectJ1939Dtc(messages))

\* UDS payloads: 7F alone, 7F 22, 7F 22 31 (request out of range), 7F 22 EE
\* (a code the table does not know), 59 02 01 23 01 (one stored DTC), a
\* payload with 7F in second place, and the empty payload
UdsPayloads ==
    {<<127>>, <<127, 34>>, <<127, 34, 49>>, <<127, 34, 238>>, <<89, 2, 1, 35, 1>>,
     <<0, 127, 0>>, <<>>}

UdsFrames == {DFrame(ts, 2024, FALSE, Len(data), data) : ts \in {0, 100}, data \in UdsPayloads}

\* self._detect_uds_errors(messages)
CallDetectUdsErrors ==
    /\ rule.status = "idle"
    /\ \E messages \in FrameLists(UdsFrames, MaxDiagFrames) :
          RuleCall("_detect_uds_errors", <<messages>>, DetectUdsErrors(messages))

\* The values of a byte
Bytes == 0..255

\* self._convert_to_dtc_format(high_byte, low_byte)
CallConvertToDtcFormat ==
    /\ rule.status = "idle"
    /\ \E high_byte \in Bytes, low_byte \in Bytes :
          RuleCall("_convert_to_dtc_format", <<high_byte, low_byte>>,
                   <<ConvertToDtcFormat(high_byte, low_byte)>>)

\* Lines of a text log
MaxTextLines == 2

\* "all fine", "(0.100) bus off", "timeout fault", "P0123 stored",
\* "bus off, P0123 stored", "overrun U0100", "form error"
TextLines ==
    {[stamp |-> Nothing, hits |-> {}, dtc |-> None],
     [stamp |-> Some(100), hits |-> {"bus_off"}, dtc |-> None],
     [stamp |-> Nothing, hits |-> {"timeout", "fault"}, dtc |-> None],
     [stamp |-> Nothing, hits |-> {"dtc"}, dtc |-> "P0123"],
     [stamp |-> Nothing, hits |-> {"bus_off", "dtc"}, dtc |-> "P0123"],
     [stamp |-> Nothing, hits |-> {"overrun", "dtc"}, dtc |-> "U0100"],
     [stamp |-> Nothing, hits |-> {"form_error", "fault"}, dtc |-> None]}

\* self._detect_text_errors(text)
CallDetectTextErrors ==
    /\ rule.status = "idle"
    /\ \E text \in FrameLists(TextLines, MaxTextLines) :
          RuleCall("_detect_text_errors", <<text>>, DetectTextErrors(text))


InitRules == Idle

NextRules ==
    \/ CallDetectBusOff
    \/ CallDetectTimeouts
    \/ CallDetectJ1939Dtc
    \/ CallDetectUdsErrors
    \/ CallConvertToDtcFormat
    \/ CallDetectTextErrors

SpecRules == InitRules /\ [][NextRules]_vars

(***************************************************************************)
(* Properties of the rules                                                 *)
(***************************************************************************)
\* The times of the frames of a collection
TimesOf(messages) == {messages[i].timestamp : i \in DOMAIN messages}

\* The times t of a collection whose next later time is more than limit
\* after t: the earlier frames of the pairs adjacent in time order whose
\* gap exceeds limit
WideGapStarts(messages, limit) ==
    {t \in TimesOf(messages) :
        \E u \in TimesOf(messages) :
            /\ u - t > limit
            /\ ~\E w \in TimesOf(messages) : t < w /\ w < u}

\* The faults of a list with the given stamp and frame id
FaultsAt(errors, t, id) ==
    {i \in DOMAIN errors : errors[i].timestamp = t /\ errors[i].can_id = id}

J1939FaultsOfFrame(msg) ==
    LET pgn == (msg.can_id \div 256) % 65536
        groups == (Len(msg.data) - 2) \div 4
        Spn(g) == msg.data[4 * g - 1] + 256 * msg.data[4 * g]
                    + 65536 * (msg.data[4 * g + 1] \div 32)
        Fmi(g) == msg.data[4 * g + 1] % 32
        Fault(g) ==
            Error(msg.timestamp, "J1939_DTC", IF pgn = 65226 THEN "Critical" ELSE "Medium",
                  Code("SPN", Spn(g), "_FMI", Fmi(g)), Some(msg.can_id))
    IN  IF pgn \in {65226, 65227} /\ Len(msg.data) >= 2
        THEN Flatten([g \in 1..groups |-> IF Spn(g) # 0 THEN <<Fault(g)>> ELSE <<>>])
        ELSE <<>>

\* C15: for every frame with an extended id whose PGN is 0xFECA or 0xFECB,
\* whatever the length of its payload, the J1939 rule emits one fault per
\* complete 4-byte group behind the 2 lamp bytes whose SPN is not zero, with
\* the 19-bit SPN and the 5-bit FMI of the group, Critical for 0xFECA and
\* Medium for 0xFECB; a frame with another PGN emits none.
C15_OneFaultPerDtcGroup ==
    rule.rule = "_detect_j1939_dtc" =>
        rule.returned =
            Flatten([i \in DOMAIN rule.args[1] |-> J1939FaultsOfFrame(rule.args[1][i])])

\* The same for collections whose payloads all have 8 bytes or more
J1939FaultsOfLongFrames ==
    (/\ rule.rule = "_detect_j1939_dtc"
     /\ \A i \in DOMAIN rule.args[1] : Len(rule.args[1][i].data) >= 8)
        => rule.returned =
             Flatten([i \in DOMAIN rule.args[1] |-> J1939FaultsOfFrame(rule.args[1][i])])

\* The frames of a collection whose payload starts with 0x7F
NegativeResponses(messages) ==
    SelectSeq(messages, LAMBDA m : m.data # <<>> /\ m.data[1] = 127)

\* A byte as two upper-case hex digits
TwoHex(b) == HexText(<<b \div 16, b % 16>>)

\* C16: every frame whose payload starts with 0x7F yields exactly one
\* Medium UDS negative-response fault; its code is UDS_NRC_ and the two hex
\* digits of payload byte 2, its description the table entry of a known
\* code and a generic one for an unknown code, which never suppresses the
\* fault.
C16_OneFaultPerNegativeResponse ==
    rule.rule = "_detect_uds_errors" =>
        LET neg == NegativeResponses(rule.args[1])
            errs == SelectSeq(rule.returned, LAMBDA e : e.error_type = "UDS_ERROR")
        IN  /\ Len(errs) = Len(neg)
            /\ \A i \in 1..Len(neg) :
                  i <= Len(errs) =>
                    /\ errs[i].severity = "Medium"
                    /\ errs[i].timestamp = neg[i].timestamp
                    /\ Len(neg[i].data) >= 3 =>
                         /\ CodeText("UDS_ERROR", errs[i].code)
                              = "UDS_NRC_" \o TwoHex(neg[i].data[3])
                         /\ errs[i].description =
                              (CASE neg[i].data[3] = 49 -> "Request Out Of Range"
                                 [] neg[i].data[3] = 238 -> "Unknown NRC: EE"
                                 [] OTHER -> "")

\* The same for collections in which every payload starting with 0x7F has
\* at least two bytes
NegativeResponseOfTwoBytes ==
    (/\ rule.rule = "_detect_uds_errors"
     /\ \A i \in DOMAIN rule.args[1] : rule.args[1][i].data # <<127>>)
        => C16_OneFaultPerNegativeResponse

\* The value of an upper-case hex digit
HexValue(c) == CHOOSE d \in 0..15 : HexText(<<d>>) = c

\* C17: for every pair of DTC bytes the conversion returns one letter,
\* chosen by the top 2 bits of the high byte (0 P, 1 C, 2 B, 3 U), followed
\* by exactly 4 hex digits, and two different pairs never get the same
\* code: the pair can be read back from the letter and the digits.
C17_DtcCodeIsLetterAndFourDigits ==
    rule.rule = "_convert_to_dtc_format" =>
        LET high == rule.args[1]
            low == rule.args[2]
            text == CodeText("UDS_DTC", rule.returned[1])
            Digit(i) == HexValue(SubSeq(text, i, i))
        IN  /\ Len(text) = 5
            /\ SubSeq(text, 1, 1) = <<"P", "C", "B", "U">>[(high \div 64) + 1]
            /\ \A i \in 2..5 : \E d \in 0..15 : HexText(<<d>>) = SubSeq(text, i, i)
            /\ Digit(2) < 4
            /\ high = 64 * (high \div 64) + 16 * Digit(2) + Digit(3)
            /\ low = 16 * Digit(4) + Digit(5)

\* 0xFF 0xFF has been converted, to U3FFF
C17_Witness ==
    /\ rule.rule = "_convert_to_dtc_format"
    /\ rule.args = <<255, 255>>
    /\ CodeText("UDS_DTC", rule.returned[1]) = "U3FFF"

\* The fixed table from category to severity, by the name a fault reports
SeverityOfCategory(category) ==
    CASE category \in {"BUS_OFF", "ERROR_FRAME", "FAULT"} -> "Critical"
      [] category \in {"TIMEOUT", "CHECKSUM", "DTC"} -> "High"
      [] category \in {"DLC_ERROR", "ACK_ERROR", "OVERRUN"} -> "Medium"
      [] OTHER -> "Low"

\* The lines of a text that match a pattern
MatchingLines(text) == SelectSeq(text, LAMBDA line : line.hits # {})

\* The fault is that of the first pattern, in the fixed order, the line
\* matches, with the severity the table gives the category it reports
FaultOfFirstPattern(error, line) ==
    /\ \E k \in DOMAIN error_patterns :
          /\ error_patterns[k] \in line.hits
          /\ \A j \in 1..(k - 1) : error_patterns[j] \notin line.hits
          /\ error.error_type = Upper(error_patterns[k])
    /\ error.severity = SeverityOfCategory(error.error_type)

\* C19: the text fallback emits at most one fault per line, that of the
\* first pattern in the fixed order that matches the line, and the severity
\* of every fault is the entry of the category-to-severity table for the
\* category the fault reports, also when the line holds a DTC-shaped token.
C19_TextFaultOfFirstPattern ==
    rule.rule = "_detect_text_errors" =>
        LET lines == MatchingLines(rule.args[1])
        IN  /\ Len(rule.returned) = Len(lines)
            /\ \A i \in DOMAIN rule.returned : FaultOfFirstPattern(rule.returned[i], lines[i])

\* The same for texts in which a DTC-shaped token stands on lines that
\* match no other pattern
TextFaultWithoutOtherDtc ==
    (/\ rule.rule = "_detect_text_errors"
     /\ \A i \in DOMAIN rule.args[1] :
           "dtc" \in rule.args[1][i].hits => rule.args[1][i].hits = {"dtc"})
        => C19_TextFaultOfFirstPattern

(***************************************************************************)
(* The decoder's scaling and clamping                                      *)
(***************************************************************************)
\* raw * factor + offset of a signal the payload is long enough for
Physical(signal, data) == RawValue(signal, data) * signal.factor + signal.offset

\* x moved into [lo, hi]
Clamped(x, lo, hi) == IF x < lo THEN lo ELSE IF x > hi THEN hi ELSE x

\* The signals the call decode_message just answered from the parser's own
\* tables has decoded from a payload long enough for them
DecodedSignals ==
    {n \in DOMAIN dbc.decoded[1].signals :
        ~NotEnoughData(dbc.messages[dbc.call[1].can_id].signals[n], dbc.call[1].data)}

\* C20 as stated: the decoder computes raw * factor + offset and clamps it
\* into [min, max] if and only if both min and max of the signal are not
\* zero; if either is zero the value is returned unclamped.
C20_ClampsIffBothNonZero ==
    OwnDecode =>
        \A n \in DecodedSignals :
            LET signal == dbc.messages[dbc.call[1].can_id].signals[n]
                physical == Physical(signal, dbc.call[1].data)
            IN  dbc.decoded[1].signals[n].value =
                    IF signal.minimum # 0 /\ signal.maximum # 0
                    THEN Clamped(physical, signal.minimum, signal.maximum)
                    ELSE physical

\* C20: the decoder computes raw * factor + offset and clamps it into
\* [min, max] if and only if at least one of min and max of the signal is
\* not zero; if both are zero the value is returned unclamped.
C20_ClampsIffOneNonZero ==
    OwnDecode =>
        \A n \in DecodedSignals :
            LET signal == dbc.messages[dbc.call[1].can_id].signals[n]
                physical == Physical(signal, dbc.call[1].data)
            IN  dbc.decoded[1].signals[n].value =
                    IF signal.minimum # 0 \/ signal.maximum # 0
                    THEN Clamped(physical, signal.minimum, signal.maximum)
                    ELSE physical

\* Load, with the range [0|100], has been decoded from a payload whose first
\* byte is 255, and the value is 100
C20_Witness ==
    /\ OwnDecode
    /\ dbc.call[1].can_id = 512
    /\ dbc.call[1].data = <<255, 200>>
    /\ "Load" \in DOMAIN dbc.decoded[1].signals
    /\ dbc.decoded[1].signals["Load"].value = 100

(***************************************************************************)
(* The decoder's bit extraction                                            *)
(***************************************************************************)
\* Bit number `position` of the payload: bit position % 8 of byte
\* position \div 8
PayloadBit(data, position) == (data[(position \div 8) + 1] \div (2 ^ (position % 8))) % 2

RECURSIVE BigEndianPositions(_, _)
\* The payload bits of a big-endian signal of n bits, most significant
\* first: from the start bit down to bit 0 of its byte, then on from bit 7
\* of the next byte
BigEndianPositions(position, n) ==
    IF n = 0 THEN <<>>
    ELSE <<position>> \o BigEndianPositions(
                             IF position % 8 = 0 THEN position + 15 ELSE position - 1, n - 1)

\* The payload bits of a signal, most significant first
BitPositions(signal) ==
    IF signal.is_little_endian
    THEN [i \in 1..signal.size |-> signal.start_bit + signal.size - i]
    ELSE BigEndianPositions(signal.start_bit, signal.size)

\* The signal fits in the payload: each of its bits is a bit of the payload
FitsIn(signal, data) ==
    \A i \in 1..signal.size : BitPositions(signal)[i] \div 8 < Len(data)

RECURSIVE BitsValue(_, _, _)
\* The unsigned number whose binary digits are the payload bits at
\* positions[k..], most significant first, after the digits of `value`
BitsValue(data, positions, value) ==
    IF positions = <<>> THEN value
    ELSE BitsValue(data, Tail(positions), 2 * value + PayloadBit(data, Head(positions)))

\* The reference extraction of the raw unsigned value of a signal
ReferenceRaw(signal, data) == BitsValue(data, BitPositions(signal), 0)

\* The raw unsigned value made signed, scaled and clamped as the decoder
\* does after the extraction
ValueOfRaw(signal, unsigned) ==
    LET raw == IF signal.is_signed /\ unsigned >= 2 ^ (signal.size - 1)
               THEN unsigned - 2 ^ signal.size ELSE unsigned
        physical == raw * signal.factor + signal.offset
    IN  IF signal.minimum # 0 \/ signal.maximum # 0
        THEN Clamped(physical, signal.minimum, signal.maximum)
        ELSE physical

\* The signals of the message just decoded from the parser's own tables
\* that fit in the payload of the call
FittingSignals ==
    {n \in DOMAIN dbc.messages[dbc.call[1].can_id].signals :
        FitsIn(dbc.messages[dbc.call[1].can_id].signals[n], dbc.call[1].data)}

\* C21: for every payload and every signal that fits in it, the raw unsigned
\* value the decoder extracts is the reference bit extraction of the byte
\* order of the signal (little-endian: bit i of the value is payload bit
\* start_bit + i; big-endian: start_bit is the most significant bit, the walk
\* goes down inside a byte and on at bit 7 of the next byte), so that the
\* decoded value is the one that raw value gives.
C21_RawIsReferenceExtraction ==
    OwnDecode =>
        \A n \in FittingSignals :
            LET signal == dbc.messages[dbc.call[1].can_id].signals[n]
                data == dbc.call[1].data
            IN  /\ n \in DOMAIN dbc.decoded[1].signals
                /\ dbc.decoded[1].signals[n].value =
                       ValueOfRaw(signal, ReferenceRaw(signal, data))

\* C21 for the little-endian signals
LittleEndianRawIsReference ==
    OwnDecode =>
        \A n \in FittingSignals :
            LET signal == dbc.messages[dbc.call[1].can_id].signals[n]
                data == dbc.call[1].data
            IN  signal.is_little_endian =>
                    /\ n \in DOMAIN dbc.decoded[1].signals
                    /\ dbc.decoded[1].signals[n].value =
                           ValueOfRaw(signal, ReferenceRaw(signal, data))

(***************************************************************************)
(* The decoder's enumeration labels                                        *)
(***************************************************************************)
\* The entry has the label `text`
HasLabel(entry, text) == "text" \in DOMAIN entry /\ entry.text = text

\* C22: in the decoder's own path a label is attached to a decoded signal if
\* and only if the signal has an enumeration table and the raw integer of the
\* signal (before scale, offset and clamping) is a key of the table, and the
\* label attached is the one of the raw integer.
C22_LabelOfRawInteger ==
    OwnDecode =>
        \A n \in DecodedSignals :
            LET message == dbc.messages[dbc.call[1].can_id]
                raw == RawValue(message.signals[n], dbc.call[1].data)
                key == <<message.name, n>>
                entry == dbc.decoded[1].signals[n]
            IN  IF key \in DOMAIN dbc.value_tables /\ raw \in DOMAIN dbc.value_tables[key]
                THEN HasLabel(entry, dbc.value_tables[key][raw])
                ELSE "text" \notin DOMAIN entry

\* The same with the decoded value, scaled and clamped, in the place of the
\* raw integer
LabelOfDecodedValue ==
    OwnDecode =>
        \A n \in DecodedSignals :
            LET message == dbc.messages[dbc.call[1].can_id]
                key == <<message.name, n>>
                entry == dbc.decoded[1].signals[n]
            IN  IF /\ key \in DOMAIN dbc.value_tables
                   /\ entry.value \in DOMAIN dbc.value_tables[key]
                THEN HasLabel(entry, dbc.value_tables[key][entry.value])
                ELSE "text" \notin DOMAIN entry

(***************************************************************************)
(* The precedence of the detection strategies                              *)
(***************************************************************************)
\* The extension stage is conclusive: the table has the extension and, for
\* an ambiguous one, the content check found the dialect of the table
ExtensionConclusive(f) ==
    /\ f.ext \in DOMAIN extension_map
    /\ f.ext \in AmbiguousExts => DetectByContent(f) = extension_map[f.ext]

\* The value of the chain extension -> magic bytes -> content patterns ->
\* trial parse, each stage tried when the one before is inconclusive
ChainFormat(f) ==
    IF ExtensionConclusive(f) THEN extension_map[f.ext]
    ELSE IF DetectByMagic(f) # None THEN DetectByMagic(f)
    ELSE IF DetectByContent(f) # None THEN DetectByContent(f)
    ELSE IF DetectByParsing(f) # None THEN DetectByParsing(f)
    ELSE "can_log"

\* C23: detect_format follows the precedence extension -> magic bytes ->
\* content patterns -> trial parse, going to the next stage exactly when the
\* previous one is inconclusive; for a file with an ambiguous extension the
\* dialect of the extension is returned only when the content check confirmed
\* it, and otherwise detection goes on with the later stages.
C23_DetectionFollowsPrecedence ==
    auto.status = "returned" => auto.result = ChainFormat(auto.path[1])

\* The chain is followed for the files whose extension is not ambiguous
PrecedenceOfPlainExtensions ==
    (auto.status = "returned" /\ auto.path[1].ext \notin AmbiguousExts)
        => auto.result = ChainFormat(auto.path[1])

(***************************************************************************)
(* The skipped-line counter of CANParser.parse_file                        *)
(***************************************************************************)
\* The lines of the file read so far that were handed to parse_line and
\* ended in one of the given ways
LinesEnding(tags) ==
    {i \in 1..Len(parse.lines) :
        /\ ReachesParseLine("CANParser", parse.lines[i])
        /\ CANParseLine(parse.lines[i]).tag \in tags}

\* C24: when CANParser.parse_file has run to completion its skipped-line
\* counter is the number of lines that were neither blank, comment nor
\* header lines and produced no frame, whether the line matched no pattern
\* or raised during conversion.
C24_CounterIsLinesWithoutFrame ==
    (parse.status = "done" /\ parse.parser = "CANParser") =>
        parse.error_count = Cardinality(LinesEnding({"none", "raise"}))

\* The counter is the number of lines that raised during conversion
CounterIsLinesThatRaised ==
    (parse.status = "done" /\ parse.parser = "CANParser") =>
        parse.error_count = Cardinality(LinesEnding({"raise"}))

(***************************************************************************)
(* The signals of a loaded layout and the length of their message          *)
(***************************************************************************)
\* The signal ends within the dlc bytes of its message
WithinDlc(signal, message) == signal.start_bit + signal.size <= 8 * message.dlc

\* C25: every signal definition held in a loaded layout satisfies
\* start_bit + bit_length <= 8 x DLC of its owning message; a signal line
\* that violates this is not stored as a signal of the layout.
C25_SignalsWithinDlc ==
    dbc.status = "loaded" =>
        \A id \in DOMAIN dbc.messages :
            \A n \in DOMAIN dbc.messages[id].signals :
                WithinDlc(dbc.messages[id].signals[n], dbc.messages[id])

\* Every signal of a loaded layout belongs to a message of the layout and is
\* held under its own name
SignalsUnderTheirName ==
    dbc.status = "loaded" =>
        \A id \in DOMAIN dbc.messages :
            \A n \in DOMAIN dbc.messages[id].signals :
                /\ dbc.messages[id].signals[n].name = n
                /\ <<dbc.messages[id].name, n>> \in DOMAIN dbc.signals

(***************************************************************************)
(* The two paths of the loader on the same database file                   *)
(***************************************************************************)
\* The part of a layout the decoder and the fault detector read: messages
\* with name, dlc, sender, cycle time and signal names, the signals, the
\* enumeration tables
LayoutOf(returned) ==
    [messages |-> returned.messages, signals |-> returned.signals,
     value_tables |-> returned.value_tables]

\* The layout each path makes of the lines on a new DBCParser
PrimaryLayout(lines) ==
    LayoutOf(ToDict(ExtractFromCantools(Fields(DbcIdle), LoadFile(lines))))
FallbackLayout(lines) == LayoutOf(ToDict(ManualParse(Fields(DbcIdle), lines).fields))

\* Both paths accept the lines: the library loads a file of the pool with
\* these lines, and the fallback parser does not raise on them
BothAccept(lines) ==
    /\ \E k \in 1..Len(DbcFiles) : DbcFiles[k].lib_ok /\ DbcFiles[k].lines = lines
    /\ ~ManualParse(Fields(DbcIdle), lines).raised

\* The first load of a DBCParser has returned a layout
FirstLoadReturned == dbc.status = "loaded" /\ Len(dbc.loads) = 1

\* C26: for a database file both the primary (library) path and the fallback
\* parser accept, the two paths produce the same layout: the same message ids
\* with the same name, DLC, sender and cycle time, the same signals per
\* message, and the same enumeration tables.
C26_PathsProduceSameLayout ==
    (FirstLoadReturned /\ BothAccept(DbcFiles[dbc.loads[1]].lines)) =>
        LET lines == DbcFiles[dbc.loads[1]].lines
        IN  /\ LayoutOf(dbc.returned[1]) = PrimaryLayout(lines)
            /\ LayoutOf(dbc.returned[1]) = FallbackLayout(lines)

\* The two paths find the same message ids, with the same name, DLC and
\* sender
PathsProduceSameMessageHeads ==
    (FirstLoadReturned /\ BothAccept(DbcFiles[dbc.loads[1]].lines)) =>
        LET lines == DbcFiles[dbc.loads[1]].lines
            head(m) == <<m.id, m.name, m.dlc, m.sender, m.is_extended>>
            heads(layout) == {head(layout.messages[id]) : id \in DOMAIN layout.messages}
        IN  /\ heads(dbc.returned[1]) = heads(PrimaryLayout(lines))
            /\ heads(dbc.returned[1]) = heads(FallbackLayout(lines))

(***************************************************************************)
(* The statistics of a CAN log file                                        *)
(***************************************************************************)
RECURSIVE SumOf(_)
\* The sum of the counts of a frequency table
SumOf(table) ==
    IF DOMAIN table = {} THEN 0
    ELSE LET k == CHOOSE k \in DOMAIN table : TRUE
         IN  table[k] + SumOf([j \in DOMAIN table \ {k} |-> table[j]])

\* total_messages is extended_ids + standard_ids, the sum of the per-id
\* frequency table and the sum of the DLC distribution
CountsAgree(stats) ==
    /\ stats.total_messages = stats.extended_ids + stats.standard_ids
    /\ stats.total_messages = SumOf(stats.id_frequency)
    /\ stats.total_messages = SumOf(stats.dlc_distribution)

\* C27: for every file from which CANParser parses at least one frame,
\* get_file_stats reports a time range that starts at the timestamp of the
\* first frame and ends at the timestamp of the last frame (also when a
\* timestamp is 0.0), and total_messages equals extended_ids + standard_ids,
\* the sum of the per-id frequency table and the sum of the DLC distribution.
C27_StatsOfParsedFrames ==
    (parse.status = "stats" /\ Produced # <<>>) =>
        /\ parse.stats[1].time_range.start = Some(Produced[1].timestamp)
        /\ parse.stats[1].time_range.end = Some(Produced[Len(Produced)].timestamp)
        /\ parse.stats[1].total_messages = Len(Produced)
        /\ CountsAgree(parse.stats[1])

\* The same for the files whose first and last frame have a timestamp other
\* than 0.0, and the counts for every file
StatsOfFramesAfterTimeZero ==
    (parse.status = "stats" /\ Produced # <<>>) =>
        /\ (Produced[1].timestamp # 0 /\ Produced[Len(Produced)].timestamp # 0)
               => /\ parse.stats[1].time_range.start = Some(Produced[1].timestamp)
                  /\ parse.stats[1].time_range.end = Some(Produced[Len(Produced)].timestamp)
        /\ parse.stats[1].total_messages = Len(Produced)
        /\ CountsAgree(parse.stats[1])

(***************************************************************************)
(* Several loads on the one DBCParser of the registry                      *)
(***************************************************************************)
\* The file of the most recent parse_file call
LastFile == DbcFiles[dbc.loads[Len(dbc.loads)]]

\* The layout a new DBCParser returns for the file, by the path that loads it
LayoutOfFile(file) ==
    IF file.lib_ok THEN PrimaryLayout(file.lines) ELSE FallbackLayout(file.lines)

\* C28: for any sequence of loads on one DBCParser, the layout parse_file(B)
\* returns holds only the messages, signals and enumeration tables defined in
\* file B; nothing defined only in a file loaded before appears in it.
C28_LayoutHoldsOnlyLoadedFile ==
    dbc.status = "loaded" => LayoutOf(dbc.returned[1]) = LayoutOfFile(LastFile)

\* The layout the first load of a DBCParser returns holds only what the file
\* defines
FirstLayoutHoldsOnlyLoadedFile ==
    FirstLoadReturned => LayoutOf(dbc.returned[1]) = LayoutOfFile(LastFile)

\* parse_file returns a layout for the file on a new DBCParser
Loads(file) ==
    file.exists /\ (file.lib_ok \/ ~ManualParse(Fields(DbcIdle), file.lines).raised)

\* decode_message on a new DBCParser that has loaded the file
DecodeOfFile(file, can_id, data) ==
    IF file.lib_ok THEN LibDecode(LoadFile(file.lines), can_id, data)
    ELSE LET fields == ManualParse(Fields(DbcIdle), file.lines).fields
         IN  ManualDecode(fields.messages, fields.value_tables, can_id, data)

\* C29: after any sequence of loads on one DBCParser, decode_message decodes
\* against the layout of the most recently loaded database; after a load of
\* A through the library and a load of B through the fallback parser it uses
\* the message definitions of B, never the library database kept from A.
C29_DecodesAgainstLastLoad ==
    (dbc.status = "decoded" /\ Loads(LastFile)) =>
        dbc.decoded = DecodeOfFile(LastFile, dbc.call[1].can_id, dbc.call[1].data)

\* The same where the most recent load went through the library
DecodesAgainstLastLibraryLoad ==
    (dbc.status = "decoded" /\ Loads(LastFile) /\ LastFile.lib_ok) =>
        dbc.decoded = DecodeOfFile(LastFile, dbc.call[1].can_id, dbc.call[1].data)

\* The case C29 names: a load through the library followed by a load through
\* the fallback parser
FallbackLoadAfterLibraryLoad ==
    (/\ dbc.status = "decoded"
     /\ Len(dbc.loads) = 2
     /\ DbcFiles[dbc.loads[1]].lib_ok
     /\ Loads(LastFile) /\ ~LastFile.lib_ok) =>
        dbc.decoded = DecodeOfFile(LastFile, dbc.call[1].can_id, dbc.call[1].data)

(***************************************************************************)
(* The fallback parser's attachment of signals to messages                 *)
(***************************************************************************)
RECURSIVE OwnerFrom(_, _, _)
\* The id of the nearest BO_ line before line k of the file, if there is one
OwnerFrom(lines, k, j) ==
    IF j < 1 THEN Nothing
    ELSE IF lines[j].kind = "BO_" THEN Some(lines[j].id)
    ELSE OwnerFrom(lines, k, j - 1)

\* The well-formed SG_ lines of the file that follow the BO_ line of a
\* message the file defines
OwnedSignalLines(lines) ==
    {k \in 1..Len(lines) :
        /\ lines[k].kind = "SG_" /\ lines[k].matches /\ lines[k].numeric
        /\ OwnerFrom(lines, k, k - 1) # Nothing
        /\ \E j \in 1..Len(lines) :
               /\ lines[j].kind = "BO_" /\ lines[j].complete
               /\ lines[j].id = OwnerFrom(lines, k, k - 1)[1]}

\* The most recent load went through the fallback parser and returned
FallbackLoadReturned == dbc.status = "loaded" /\ ~LastFile.lib_ok

\* C30: in the fallback parser every well-formed SG_ line is attached to the
\* message of the nearest preceding BO_ line, for every message id including
\* id 0; no signal of a defined message is dropped.
C30_SignalsAttachedToTheirMessage ==
    FallbackLoadReturned =>
        \A k \in OwnedSignalLines(LastFile.lines) :
            LET id == OwnerFrom(LastFile.lines, k, k - 1)[1]
                sig == LastFile.lines[k].sig
            IN  /\ id \in DOMAIN dbc.messages
                /\ sig.name \in DOMAIN dbc.messages[id].signals
                /\ dbc.messages[id].signals[sig.name] = sig

\* No BO_ line of the file starts with white space
NoIndentedMessageLine(lines) ==
    \A j \in 1..Len(lines) : lines[j].kind = "BO_" => ~lines[j].indent

\* The same for the messages whose id is not 0, in files whose BO_ lines
\* start in the first column
SignalsAttachedUnlessIdZero ==
    (FallbackLoadReturned /\ NoIndentedMessageLine(LastFile.lines)) =>
        \A k \in OwnedSignalLines(LastFile.lines) :
            LET id == OwnerFrom(LastFile.lines, k, k - 1)[1]
                sig == LastFile.lines[k].sig
            IN  id # 0 =>
                    /\ id \in DOMAIN dbc.messages
                    /\ sig.name \in DOMAIN dbc.messages[id].signals
                    /\ dbc.messages[id].signals[sig.name] = sig
====
